---- MODULE Spec2Model ----
(***************************************************************************)
(* A model of anachro-forth (crate a4-core and the a4 host driver)  :      *)
(* the compiler (muncher + lowering), the dictionary, the stepwise         *)
(* interpreter (Runtime::step), the builtins, the serializer and the two   *)
(* loaders, and the host loops that drive them.                            *)
(*                                                                         *)
(* Tokens are sequences of one-character strings, so that lowercasing and  *)
(* number parsing are computed character by character, as the code does.   *)
(* Stacks are sequences whose last element is the top (Vec::push / pop).   *)
(* The output sink is a sequence of Unicode code points.                   *)
(* A panic (unwrap on Err, assert!, todo!(), panic!()) ends the process:   *)
(* the model records it and executes nothing further.                      *)
(***************************************************************************)
EXTENDS Integers, Sequences, FiniteSets, TLC

\* ------------------------------------------------------------------ i32
I32Max == 2147483647
I32Min == -2147483647 - 1

\* An increment that leaves the value as it is
checked_add_0(v) == [ok |-> TRUE, val |-> v]

\* i32::checked_add(1)
checked_add_1(v) ==
    IF v = I32Max THEN [ok |-> FALSE, val |-> 0] ELSE [ok |-> TRUE, val |-> v + 1]

\* An addition that stops at the ends of the 32-bit range
saturating_add(a, b) ==
    IF a > 0 /\ b > 0 /\ a > I32Max - b THEN I32Max
    ELSE IF a < 0 /\ b < 0 /\ a < I32Min - b THEN I32Min
    ELSE a + b

\* i32::wrapping_add, computed without leaving the 32-bit range
wrapping_add(a, b) ==
    IF a > 0 /\ b > 0 /\ a > I32Max - b
    THEN ((a - I32Max) - 1) + ((b - I32Max) - 1)
    ELSE IF a < 0 /\ b < 0 /\ a < I32Min - b
    THEN ((a + I32Max) + 1) + ((b + I32Max) + 1)
    ELSE a + b

\* ------------------------------------------------------------ characters
\* The printable ASCII characters, in code order; Ascii[i] has code 31 + i.
\* (The double quote, the backslash and the backtick are spelled out: no token uses them.)
Ascii ==
    << " ", "!", "<dquote>", "#", "$", "%", "&", "'", "(", ")", "*", "+", ",", "-", ".", "/",
       "0", "1", "2", "3", "4", "5", "6", "7", "8", "9", ":", ";", "<", "=", ">", "?",
       "@", "A", "B", "C", "D", "E", "F", "G", "H", "I", "J", "K", "L", "M", "N", "O",
       "P", "Q", "R", "S", "T", "U", "V", "W", "X", "Y", "Z", "[", "<bslash>", "]", "^", "_",
       "<btick>", "a", "b", "c", "d", "e", "f", "g", "h", "i", "j", "k", "l", "m", "n", "o",
       "p", "q", "r", "s", "t", "u", "v", "w", "x", "y", "z", "{", "|", "}", "~" >>

CharCode(c) == 31 + (CHOOSE i \in 1..Len(Ascii) : Ascii[i] = c)

IsDigit(c) == CharCode(c) >= 48 /\ CharCode(c) <= 57
DigitVal(c) == CharCode(c) - 48
DigitChar(d) == Ascii[d + 17]

\* char::to_lowercase on ASCII: A..Z move up by 32, the rest stay
to_lowercase_char(c) ==
    IF CharCode(c) >= 65 /\ CharCode(c) <= 90 THEN Ascii[CharCode(c) + 32 - 31] ELSE c

\* str::to_lowercase
to_lowercase(s) == [i \in 1..Len(s) |-> to_lowercase_char(s[i])]

\* The decimal digits of n >= 0, as characters
RECURSIVE DecDigits(_)
DecDigits(n) ==
    IF n < 10 THEN << DigitChar(n) >>
    ELSE Append(DecDigits(n \div 10), DigitChar(n % 10))

\* format!("{}", n) for an i32
fmt_i32(n) ==
    IF n >= 0 THEN DecDigits(n)
    ELSE IF n = I32Min THEN << "-", "2", "1", "4", "7", "4", "8", "3", "6", "4", "8" >>
    ELSE << "-" >> \o DecDigits(-n)

\* The code points of a string
CodePoints(s) == [i \in 1..Len(s) |-> CharCode(s[i])]

\* i32::from_str digit loop: non-negative numbers accumulate upwards with
\* checked_mul / checked_add, negative ones downwards with checked_sub.
RECURSIVE parse_digits(_, _, _)
parse_digits(s, acc, neg) ==
    IF s = << >> THEN [ok |-> TRUE, val |-> acc]
    ELSE IF ~IsDigit(Head(s)) THEN [ok |-> FALSE, val |-> 0]
    ELSE LET d == DigitVal(Head(s)) IN
         IF neg
         THEN IF acc < (I32Min + d) \div 10 + (IF (I32Min + d) % 10 = 0 THEN 0 ELSE 1)
              THEN [ok |-> FALSE, val |-> 0]
              ELSE parse_digits(Tail(s), acc * 10 - d, neg)
         ELSE IF acc > (I32Max - d) \div 10
              THEN [ok |-> FALSE, val |-> 0]
              ELSE parse_digits(Tail(s), acc * 10 + d, neg)

\* parse_num: input.parse::<i32>().ok()
parse_num(input) ==
    IF input = << >> THEN [ok |-> FALSE, val |-> 0]
    ELSE IF Head(input) = "-" \/ Head(input) = "+"
    THEN IF Len(input) = 1 THEN [ok |-> FALSE, val |-> 0]
         ELSE parse_digits(Tail(input), 0, Head(input) = "-")
    ELSE parse_digits(input, 0, FALSE)

\* ---------------------------------------------------------------- tokens
\* The words the compiler and the host compare tokens with
T_colon == << ":" >>
T_semi  == << ";" >>
T_if    == << "i", "f" >>
T_else  == << "e", "l", "s", "e" >>
T_then  == << "t", "h", "e", "n" >>
T_do    == << "d", "o" >>
T_loop  == << "l", "o", "o", "p" >>
\* The names the lowering of do/loop gives the words it emits
N_to_r      == << ">", "r" >>
N_PRIV_LOOP == << "P", "R", "I", "V", "_", "L", "O", "O", "P" >>
N_CRJ       == << "C", "R", "J" >>
N_UCRJ      == << "U", "C", "R", "J" >>
\* format!("LIT({})", num)
N_LIT(num) == << "L", "I", "T", "(" >> \o fmt_i32(num) \o << ")" >>

\* ----------------------------------------------------------- RuntimeWord
\* enum RuntimeWord, one record shape for all variants. bi names the builtin
\* function a Verb holds; tok and idx are the VerbSeqInner of a VerbSeq.
NoTok == << >>
LiteralVal(v) ==
    [tag |-> "LiteralVal", val |-> v, jump_on |-> FALSE, bi |-> "", tok |-> NoTok, idx |-> 0]
Verb(f) ==
    [tag |-> "Verb", val |-> 0, jump_on |-> FALSE, bi |-> f, tok |-> NoTok, idx |-> 0]
VerbSeq(t, i) ==
    [tag |-> "VerbSeq", val |-> 0, jump_on |-> FALSE, bi |-> "", tok |-> t, idx |-> i]
UncondRelativeJump(offset) ==
    [tag |-> "UncondRelativeJump", val |-> offset, jump_on |-> FALSE, bi |-> "",
     tok |-> NoTok, idx |-> 0]
CondRelativeJump(offset, on) ==
    [tag |-> "CondRelativeJump", val |-> offset, jump_on |-> on, bi |-> "",
     tok |-> NoTok, idx |-> 0]

\* A from_word whose cursor starts behind the first word
from_word_behind(t) == VerbSeq(t, 1)

\* VerbSeqInner::from_word
from_word(t) == VerbSeq(t, 0)

\* struct NamedStdRuntimeWord
Named(n, w) == [name |-> n, word |-> w]

\* ------------------------------------------------------------------ maps
\* BTreeMap: a function on its key set
EmptyMap == [k \in {} |-> 0]
MapInsert(m, k, v) == [x \in (DOMAIN m) \cup {k} |-> IF x = k THEN v ELSE m[x]]
\* str::starts_with
starts_with(s, prefix) ==
    Len(s) >= Len(prefix) /\ SubSeq(s, 1, Len(prefix)) = prefix

\* dict.data.retain(|k, _| !k.starts_with("__"))
retain_named(m) == [x \in {k \in DOMAIN m : ~starts_with(k, << "_", "_" >>)} |-> m[x]]

\* ---------------------------------------------------------------- chunks
\* enum Chunk, one record shape for all variants
Token(t) ==
    [kind |-> "Token", tok |-> t, if_body |-> << >>, else_body |-> << >>, do_body |-> << >>]
IfThen(b) ==
    [kind |-> "IfThen", tok |-> NoTok, if_body |-> b, else_body |-> << >>, do_body |-> << >>]
IfElseThen(b, e) ==
    [kind |-> "IfElseThen", tok |-> NoTok, if_body |-> b, else_body |-> e, do_body |-> << >>]
DoLoop(b) ==
    [kind |-> "DoLoop", tok |-> NoTok, if_body |-> << >>, else_body |-> << >>, do_body |-> b]

\* The munchers return [ok, chunk, data]: ok is FALSE when the muncher ran
\* into its todo!() (the opener was never closed), data is what is left of
\* the token queue.
MunchPanic == [ok |-> FALSE, chunk |-> Token(NoTok), data |-> << >>]

RECURSIVE munch_do(_, _), munch_if(_, _), munch_else(_, _, _)

\* A munch_do that splices the chunks of a nested loop into the enclosing
\* body instead of keeping the nested loop as one chunk
munch_do_flat(data, chunks) ==
    IF data = << >> THEN MunchPanic
    ELSE LET next == Head(data)
             rest == Tail(data)
         IN  IF next = T_do
             THEN LET r == munch_do(rest, << >>)
                  IN  IF r.ok THEN munch_do(r.data, chunks \o r.chunk.do_body) ELSE r
             ELSE IF next = T_if
             THEN LET r == munch_if(rest, << >>)
                  IN  IF r.ok THEN munch_do(r.data, Append(chunks, r.chunk)) ELSE r
             ELSE IF next = T_loop
             THEN [ok |-> TRUE, chunk |-> DoLoop(chunks), data |-> rest]
             ELSE munch_do(rest, Append(chunks, Token(next)))

\* fn munch_do; chunks is the loop's accumulator
munch_do(data, chunks) ==
    IF data = << >> THEN MunchPanic
    ELSE LET next == Head(data)
             rest == Tail(data)
         IN  IF next = T_do
             THEN LET r == munch_do(rest, << >>)
                  IN  IF r.ok THEN munch_do(r.data, Append(chunks, r.chunk)) ELSE r
             ELSE IF next = T_if
             THEN LET r == munch_if(rest, << >>)
                  IN  IF r.ok THEN munch_do(r.data, Append(chunks, r.chunk)) ELSE r
             ELSE IF next = T_loop
             THEN [ok |-> TRUE, chunk |-> DoLoop(chunks), data |-> rest]
             ELSE munch_do(rest, Append(chunks, Token(next)))

\* fn munch_if
munch_if(data, chunks) ==
    IF data = << >> THEN MunchPanic
    ELSE LET next == Head(data)
             rest == Tail(data)
         IN  IF next = T_do
             THEN LET r == munch_do(rest, << >>)
                  IN  IF r.ok THEN munch_if(r.data, Append(chunks, r.chunk)) ELSE r
             ELSE IF next = T_if
             THEN LET r == munch_if(rest, << >>)
                  IN  IF r.ok THEN munch_if(r.data, Append(chunks, r.chunk)) ELSE r
             ELSE IF next = T_then
             THEN [ok |-> TRUE, chunk |-> IfThen(chunks), data |-> rest]
             ELSE IF next = T_else
             THEN munch_else(rest, chunks, << >>)
             ELSE munch_if(rest, Append(chunks, Token(next)))

\* fn munch_else
munch_else(data, if_body, chunks) ==
    IF data = << >> THEN MunchPanic
    ELSE LET next == Head(data)
             rest == Tail(data)
         IN  IF next = T_do
             THEN LET r == munch_do(rest, << >>)
                  IN  IF r.ok THEN munch_else(r.data, if_body, Append(chunks, r.chunk)) ELSE r
             ELSE IF next = T_if
             THEN LET r == munch_if(rest, << >>)
                  IN  IF r.ok THEN munch_else(r.data, if_body, Append(chunks, r.chunk)) ELSE r
             ELSE IF next = T_then
             THEN [ok |-> TRUE, chunk |-> IfElseThen(if_body, chunks), data |-> rest]
             ELSE munch_else(rest, if_body, Append(chunks, Token(next)))

\* fn muncher; returns [ok, chunks, data]
RECURSIVE muncher_loop(_, _)
muncher_loop(data, chunks) ==
    IF data = << >> THEN [ok |-> TRUE, chunks |-> chunks, data |-> data]
    ELSE LET next == Head(data)
             rest == Tail(data)
         IN  IF next = T_do
             THEN LET r == munch_do(rest, << >>)
                  IN  IF r.ok THEN muncher_loop(r.data, Append(chunks, r.chunk))
                      ELSE [ok |-> FALSE, chunks |-> << >>, data |-> << >>]
             ELSE IF next = T_if
             THEN LET r == munch_if(rest, << >>)
                  IN  IF r.ok THEN muncher_loop(r.data, Append(chunks, r.chunk))
                      ELSE [ok |-> FALSE, chunks |-> << >>, data |-> << >>]
             ELSE muncher_loop(rest, Append(chunks, Token(next)))

muncher(data) == muncher_loop(data, << >>)

\* ---------------------------------------------------------------- stacks
\* A stack is a sequence, its last element the top. StdVecStack grows
\* without bound; HVecStack<T, N> holds at most N items and its push
\* unwraps the failed heapless push, which panics.
NoCap == -1
Top(stk) == stk[Len(stk)]
Pop(stk) == SubSeq(stk, 1, Len(stk) - 1)
Push(stk, x) == Append(stk, x)
Full(stk, cap) == cap # NoCap /\ Len(stk) >= cap

\* --------------------------------------------------------------- runtime
\* struct Runtime: the three stacks and the output sink. cap holds the
\* capacities of the containers the runtime was built on: DATA_SZ for the
\* data and the return stack, FLOW_SZ for the flow stack, OUTBUF_SZ bytes
\* for the output; NoCap for the Vec and String of the std runtime.
Runtime(cap) ==
    [data_stk |-> << >>, ret_stk |-> << >>, flow_stk |-> << >>, cur_output |-> << >>,
     cap |-> cap,
     overflow_checks |-> TRUE]

\* std_rt::new_runtime
new_runtime == Runtime([data |-> NoCap, flow |-> NoCap, out |-> NoCap])

\* A build without overflow checks (the release profile) wraps the plain
\* additions that a build with them (the dev profile) panics on
release_build(rt) == [rt EXCEPT !.overflow_checks = FALSE]

\* Results of the stack operations on a runtime: err is "" on success, the
\* Error's name on Err, "Panic" when the operation panicked.
Ok(rt) == [err |-> "", rt |-> rt, val |-> 0]
Fail(e, rt) == [err |-> e, rt |-> rt, val |-> 0]

\* Stack::pop reports DataStackUnderflow for every stack of i32
data_pop(rt) ==
    IF rt.data_stk = << >> THEN Fail("DataStackUnderflow", rt)
    ELSE [err |-> "", rt |-> [rt EXCEPT !.data_stk = Pop(@)], val |-> Top(rt.data_stk)]
ret_pop(rt) ==
    IF rt.ret_stk = << >> THEN Fail("DataStackUnderflow", rt)
    ELSE [err |-> "", rt |-> [rt EXCEPT !.ret_stk = Pop(@)], val |-> Top(rt.ret_stk)]
data_push(rt, v) ==
    IF Full(rt.data_stk, rt.cap.data) THEN Fail("Panic", rt)
    ELSE Ok([rt EXCEPT !.data_stk = Push(@, v)])
ret_push(rt, v) ==
    IF Full(rt.ret_stk, rt.cap.data) THEN Fail("Panic", rt)
    ELSE Ok([rt EXCEPT !.ret_stk = Push(@, v)])
\* ExecutionStack::push
flow_push(rt, word) ==
    IF Full(rt.flow_stk, rt.cap.flow) THEN Fail("Panic", rt)
    ELSE Ok([rt EXCEPT !.flow_stk = Push(@, word)])

\* The UTF-8 length of a scalar value, which is what a heapless String counts
Utf8Len(cp) == IF cp < 128 THEN 1 ELSE IF cp < 2048 THEN 2 ELSE IF cp < 65536 THEN 3 ELSE 4
RECURSIVE Utf8Bytes(_)
Utf8Bytes(cps) == IF cps = << >> THEN 0 ELSE Utf8Len(Head(cps)) + Utf8Bytes(Tail(cps))
\* One write_str / write_char to the output sink: all of it or an error
write_out(rt, cps) ==
    IF rt.cap.out # NoCap /\ Utf8Bytes(rt.cur_output) + Utf8Bytes(cps) > rt.cap.out
    THEN Fail("OutputFormat", rt)
    ELSE Ok([rt EXCEPT !.cur_output = @ \o cps])

\* Runtime::push_exec. A VerbSeq must come with idx 0 (assert_eq!).
push_exec(rt, word) ==
    IF word.tag = "VerbSeq" /\ word.idx # 0 THEN Fail("Panic", rt)
    ELSE flow_push(rt, word)

\* Option<RuntimeWord>
None == [some |-> FALSE, word |-> LiteralVal(0)]
Some(w) == [some |-> TRUE, word |-> w]

\* A provide_seq_tok that, at the end of a definition, also moves the cursor
\* of the caller back onto the call
provide_seq_tok_again(rt, seq) ==
    IF seq.some
    THEN IF seq.word.tag = "VerbSeq" /\ seq.word.idx # 0 THEN Fail("Panic", rt)
         ELSE flow_push(rt, seq.word)
    ELSE IF rt.flow_stk = << >> THEN Fail("FlowStackEmpty", rt)
         ELSE IF Len(rt.flow_stk) > 1 /\ rt.flow_stk[Len(rt.flow_stk) - 1].tag = "VerbSeq"
                 /\ rt.flow_stk[Len(rt.flow_stk) - 1].idx > 0
         THEN Ok([rt EXCEPT !.flow_stk =
                     [Pop(@) EXCEPT ![Len(@) - 1].idx = @ - 1]])
         ELSE Ok([rt EXCEPT !.flow_stk = Pop(@)])

\* A provide_seq_tok that leaves the frame where it is when there is no
\* word to provide
provide_seq_tok_keeps(rt, seq) ==
    IF seq.some
    THEN IF seq.word.tag = "VerbSeq" /\ seq.word.idx # 0 THEN Fail("Panic", rt)
         ELSE flow_push(rt, seq.word)
    ELSE IF rt.flow_stk = << >> THEN Fail("FlowStackEmpty", rt)
         ELSE Ok(rt)

\* Runtime::provide_seq_tok
provide_seq_tok(rt, seq) ==
    IF seq.some
    THEN IF seq.word.tag = "VerbSeq" /\ seq.word.idx # 0 THEN Fail("Panic", rt)
         ELSE flow_push(rt, seq.word)
    ELSE IF rt.flow_stk = << >> THEN Fail("FlowStackEmpty", rt)
         ELSE Ok([rt EXCEPT !.flow_stk = Pop(@)])

\* An exchange_output that hands out a copy of the sink and leaves the sink
\* as it is
exchange_output_copy(rt) == [out |-> rt.cur_output, rt |-> rt]

\* Runtime::exchange_output; [out, rt]
exchange_output(rt) == [out |-> rt.cur_output, rt |-> [rt EXCEPT !.cur_output = << >>]]

\* An IfThen arm whose jump lands one word past the end of the body
lower_IfThen_past(conv) ==
    << Named(N_CRJ, CondRelativeJump(Len(conv) + 1, FALSE)) >> \o conv

\* -------------------------------------------------------------- lowering
\* Chunk::IfThen arm of to_named_rt_words; conv is the converted body
lower_IfThen(conv) ==
    << Named(N_CRJ, CondRelativeJump(Len(conv), FALSE)) >> \o conv

\* An IfElseThen arm that pushes the CRJ before the UCRJ, so that its offset
\* does not count the UCRJ
lower_IfElseThen_crj_first(if_conv, else_conv) ==
    LET with_crj  == << Named(N_CRJ, CondRelativeJump(Len(if_conv), FALSE)) >> \o if_conv
        with_ucrj == Append(with_crj, Named(N_UCRJ, UncondRelativeJump(Len(else_conv))))
    IN  with_ucrj \o else_conv

\* Chunk::IfElseThen arm; the CRJ is pushed after the UCRJ, so that its
\* offset counts the UCRJ
lower_IfElseThen(if_conv, else_conv) ==
    LET with_ucrj == Append(if_conv, Named(N_UCRJ, UncondRelativeJump(Len(else_conv))))
        with_crj  == << Named(N_CRJ, CondRelativeJump(Len(with_ucrj), FALSE)) >> \o with_ucrj
    IN  with_crj \o else_conv

\* A DoLoop arm that takes len once the two >r are in front
lower_DoLoop_late_len(conv) ==
    LET with_loop == Append(conv, Named(N_PRIV_LOOP, Verb("bi_priv_loop")))
        with_tor  == << Named(N_to_r, Verb("bi_retstk_push")),
                        Named(N_to_r, Verb("bi_retstk_push")) >> \o with_loop
        len       == Len(with_tor)
    IN  Append(with_tor, Named(N_CRJ, CondRelativeJump((-1 * len) - 1, FALSE)))

\* Chunk::DoLoop arm; len is taken after PRIV_LOOP is appended
lower_DoLoop(conv) ==
    LET with_loop == Append(conv, Named(N_PRIV_LOOP, Verb("bi_priv_loop")))
        len       == Len(with_loop)
        with_tor  == << Named(N_to_r, Verb("bi_retstk_push")),
                        Named(N_to_r, Verb("bi_retstk_push")) >> \o with_loop
    IN  Append(with_tor, Named(N_CRJ, CondRelativeJump((-1 * len) - 1, FALSE)))

\* A Token arm that tries the number before the definition
lower_Token_number_first(tok, dict) ==
    IF tok \in DOMAIN dict.bis
    THEN [ok |-> TRUE, words |-> << Named(tok, Verb(dict.bis[tok])) >>]
    ELSE LET num == parse_num(tok)
         IN  IF num.ok
             THEN [ok |-> TRUE, words |-> << Named(N_LIT(num.val), LiteralVal(num.val)) >>]
             ELSE IF tok \in DOMAIN dict.data
             THEN [ok |-> TRUE, words |-> << Named(tok, from_word(tok)) >>]
             ELSE [ok |-> FALSE, words |-> << >>]

\* A Token arm that copies the body of a definition into its caller
lower_Token_inline(tok, dict) ==
    IF tok \in DOMAIN dict.bis
    THEN [ok |-> TRUE, words |-> << Named(tok, Verb(dict.bis[tok])) >>]
    ELSE IF tok \in DOMAIN dict.data
    THEN [ok |-> TRUE, words |-> dict.data[tok]]
    ELSE LET num == parse_num(tok)
         IN  IF num.ok
             THEN [ok |-> TRUE, words |-> << Named(N_LIT(num.val), LiteralVal(num.val)) >>]
             ELSE [ok |-> FALSE, words |-> << >>]

\* Chunk::Token arm: builtin, then definition, then number, else panic!()
lower_Token(tok, dict) ==
    IF tok \in DOMAIN dict.bis
    THEN [ok |-> TRUE, words |-> << Named(tok, Verb(dict.bis[tok])) >>]
    ELSE IF tok \in DOMAIN dict.data
    THEN [ok |-> TRUE, words |-> << Named(tok, from_word(tok)) >>]
    ELSE LET num == parse_num(tok)
         IN  IF num.ok
             THEN [ok |-> TRUE, words |-> << Named(N_LIT(num.val), LiteralVal(num.val)) >>]
             ELSE [ok |-> FALSE, words |-> << >>]

\* Chunk::to_named_rt_words and the flat_map over a body; [ok, words],
\* ok FALSE when a token made the lowering panic
RECURSIVE to_named_rt_words(_, _), convert_all(_, _)
to_named_rt_words(chunk, dict) ==
    IF chunk.kind = "IfThen"
    THEN LET conv == convert_all(chunk.if_body, dict)
         IN  IF conv.ok THEN [ok |-> TRUE, words |-> lower_IfThen(conv.words)] ELSE conv
    ELSE IF chunk.kind = "IfElseThen"
    THEN LET if_conv   == convert_all(chunk.if_body, dict)
             else_conv == convert_all(chunk.else_body, dict)
         IN  IF ~if_conv.ok THEN if_conv
             ELSE IF ~else_conv.ok THEN else_conv
             ELSE [ok |-> TRUE, words |-> lower_IfElseThen(if_conv.words, else_conv.words)]
    ELSE IF chunk.kind = "DoLoop"
    THEN LET conv == convert_all(chunk.do_body, dict)
         IN  IF conv.ok THEN [ok |-> TRUE, words |-> lower_DoLoop(conv.words)] ELSE conv
    ELSE lower_Token(chunk.tok, dict)

convert_all(chunks, dict) ==
    IF chunks = << >> THEN [ok |-> TRUE, words |-> << >>]
    ELSE LET first == to_named_rt_words(Head(chunks), dict)
         IN  IF ~first.ok THEN first
             ELSE LET others == convert_all(Tail(chunks), dict)
                  IN  IF ~others.ok THEN others
                      ELSE [ok |-> TRUE, words |-> first.words \o others.words]

\* A compile that hands the tokens to the munchers as they were written
compile_keeps_case(dict, data) ==
    LET munched == muncher(data)
    IN  IF ~munched.ok THEN [ok |-> FALSE, words |-> << >>]
        ELSE convert_all(munched.chunks, dict)

\* Context::compile; [ok, words], ok FALSE when the munchers or the lowering
\* panicked. The dictionary is only read.
compile(dict, data) ==
    LET vd_data == [i \in 1..Len(data) |-> to_lowercase(data[i])]
        munched == muncher(vd_data)
    IN  IF ~munched.ok THEN [ok |-> FALSE, words |-> << >>]
        ELSE convert_all(munched.chunks, dict)

\* ------------------------------------------------------------ dictionary
\* std_builtins(): the names the host registers, with their functions
std_builtins ==
    << << << "e", "m", "i", "t" >>, "bi_emit" >>,
       << << "." >>, "bi_pop" >>,
       << << "c", "r" >>, "bi_cr" >>,
       << << ">", "r" >>, "bi_retstk_push" >>,
       << << "r", ">" >>, "bi_retstk_pop" >>,
       << << "=" >>, "bi_eq" >>,
       << << "<" >>, "bi_lt" >>,
       << << ">" >>, "bi_gt" >>,
       << << "d", "u", "p" >>, "bi_dup" >>,
       << << "+" >>, "bi_add" >> >>

\* Dict::new
Dict_new == [bis |-> EmptyMap, data |-> EmptyMap, shame_idx |-> 0]

\* Context::with_builtins: a later entry of the same name replaces an earlier
with_builtins(bi) ==
    [rt |-> new_runtime,
     dict |-> [Dict_new EXCEPT
                 !.bis = [n \in {bi[i][1] : i \in 1..Len(bi)} |->
                            LET i == CHOOSE j \in 1..Len(bi) :
                                       bi[j][1] = n /\ \A k \in (j+1)..Len(bi) : bi[k][1] # n
                            IN  bi[i][2]]]]

\* An evaluate that stores a definition under its name as it was written
evaluate_keeps_case(ctxt, data) ==
    IF data # << >> /\ Head(data) = T_colon /\ data[Len(data)] = T_semi
    THEN IF ~(Len(data) >= 3) THEN [panic |-> TRUE, err |-> "", ctxt |-> ctxt]
         ELSE LET name     == data[2]
                  relevant == SubSeq(data, 3, Len(data) - 1)
                  compiled == compile(ctxt.dict, relevant)
              IN  IF ~compiled.ok THEN [panic |-> TRUE, err |-> "", ctxt |-> ctxt]
                  ELSE [panic |-> FALSE, err |-> "",
                        ctxt |-> [ctxt EXCEPT
                                    !.dict.data = MapInsert(@, name, compiled.words)]]
    ELSE IF data = << >> THEN [panic |-> FALSE, err |-> "", ctxt |-> ctxt]
    ELSE LET name == << "_", "_" >> \o fmt_i32(ctxt.dict.shame_idx)
             comp == compile(ctxt.dict, data)
         IN  IF ~comp.ok THEN [panic |-> TRUE, err |-> "", ctxt |-> ctxt]
             ELSE LET inserted == [ctxt EXCEPT !.dict.data = MapInsert(@, name, comp.words),
                                               !.dict.shame_idx = @ + 1]
                      pushed   == push_exec(inserted.rt, from_word(name))
                  IN  [panic |-> pushed.err # "", err |-> "",
                       ctxt |-> [inserted EXCEPT !.rt = pushed.rt]]

\* An evaluate that counts the anonymous line before it compiles it
evaluate_counts_first(ctxt, data) ==
    IF data # << >> /\ Head(data) = T_colon /\ data[Len(data)] = T_semi
    THEN IF ~(Len(data) >= 3) THEN [panic |-> TRUE, err |-> "", ctxt |-> ctxt]
         ELSE LET name     == to_lowercase(data[2])
                  relevant == SubSeq(data, 3, Len(data) - 1)
                  compiled == compile(ctxt.dict, relevant)
              IN  IF ~compiled.ok THEN [panic |-> TRUE, err |-> "", ctxt |-> ctxt]
                  ELSE [panic |-> FALSE, err |-> "",
                        ctxt |-> [ctxt EXCEPT
                                    !.dict.data = MapInsert(@, name, compiled.words)]]
    ELSE IF data = << >> THEN [panic |-> FALSE, err |-> "", ctxt |-> ctxt]
    ELSE LET name == << "_", "_" >> \o fmt_i32(ctxt.dict.shame_idx)
             comp == compile(ctxt.dict, data)
             counted == [ctxt EXCEPT !.dict.shame_idx = @ + 1]
         IN  IF ~comp.ok THEN [panic |-> TRUE, err |-> "", ctxt |-> counted]
             ELSE LET inserted == [counted EXCEPT !.dict.data = MapInsert(@, name, comp.words)]
                      pushed   == push_exec(inserted.rt, from_word(name))
                  IN  [panic |-> pushed.err # "", err |-> "",
                       ctxt |-> [inserted EXCEPT !.rt = pushed.rt]]

\* Context::evaluate; [panic, err, ctxt]. A line : NAME body ; stores the
\* compiled body; any other non-empty line is stored under "__<shame_idx>"
\* and a CALL to it is pushed on the flow stack. err is the Error of the
\* Result: every path that returns returns Ok(()), since both calls of
\* compile are unwrapped.
evaluate(ctxt, data) ==
    IF data # << >> /\ Head(data) = T_colon /\ data[Len(data)] = T_semi
    THEN IF ~(Len(data) >= 3) THEN [panic |-> TRUE, err |-> "", ctxt |-> ctxt]
         ELSE LET name     == to_lowercase(data[2])
                  relevant == SubSeq(data, 3, Len(data) - 1)
                  compiled == compile(ctxt.dict, relevant)
              IN  IF ~compiled.ok THEN [panic |-> TRUE, err |-> "", ctxt |-> ctxt]
                  ELSE [panic |-> FALSE, err |-> "",
                        ctxt |-> [ctxt EXCEPT
                                    !.dict.data = MapInsert(@, name, compiled.words)]]
    ELSE IF data = << >> THEN [panic |-> FALSE, err |-> "", ctxt |-> ctxt]
    ELSE LET name == << "_", "_" >> \o fmt_i32(ctxt.dict.shame_idx)
             comp == compile(ctxt.dict, data)
         IN  IF ~comp.ok THEN [panic |-> TRUE, err |-> "", ctxt |-> ctxt]
             ELSE LET inserted == [ctxt EXCEPT !.dict.data = MapInsert(@, name, comp.words),
                                               !.dict.shame_idx = @ + 1]
                      pushed   == push_exec(inserted.rt, from_word(name))
                  IN  [panic |-> pushed.err # "", err |-> "",
                       ctxt |-> [inserted EXCEPT !.rt = pushed.rt]]

\* -------------------------------------------------------------- builtins
\* Every builtin returns [err, rt, val]: err is "" on Ok, else the Error
\* ("Panic" when a push on a full HVecStack panicked). The runtime it
\* returns on Err is the one the failed ? left behind.
Interrobang == 8253
MaxScalar == 1114111
SurrogateLo == 55296
SurrogateHi == 57343
\* core::char::from_u32(word as u32).unwrap_or(interrobang): a negative i32
\* casts to a u32 above the scalar range; surrogates are no scalar values
emit_symbol(word) ==
    IF word < 0 THEN Interrobang
    ELSE IF word >= SurrogateLo /\ word <= SurrogateHi THEN Interrobang
    ELSE IF word > MaxScalar THEN Interrobang
    ELSE word

\* emit that reads the top of the data stack and leaves it there
bi_emit_peek(rt) ==
    IF rt.data_stk = << >> THEN Fail("DataStackUnderflow", rt)
    ELSE write_out(rt, << emit_symbol(Top(rt.data_stk)) >>)

bi_emit(rt) ==
    LET p == data_pop(rt)
    IN  IF p.err # "" THEN p ELSE write_out(p.rt, << emit_symbol(p.val) >>)

NewLine == 10
\* writeln!(out, "{}", n): the number, then the newline
bi_pop(rt) ==
    LET p == data_pop(rt)
        w == write_out(p.rt, CodePoints(fmt_i32(p.val)))
    IN  IF p.err # "" THEN p
        ELSE IF w.err # "" THEN w
        ELSE write_out(w.rt, << NewLine >>)

bi_cr(rt) == write_out(rt, << NewLine >>)

\* A < that takes the value on top as its left operand
bi_lt_swapped(rt) ==
    LET val2 == data_pop(rt)
        val1 == data_pop(val2.rt)
    IN  IF val2.err # "" THEN val2
        ELSE IF val1.err # "" THEN val1
        ELSE data_push(val1.rt, IF val2.val < val1.val THEN -1 ELSE 0)

bi_lt(rt) ==
    LET val2 == data_pop(rt)
        val1 == data_pop(val2.rt)
    IN  IF val2.err # "" THEN val2
        ELSE IF val1.err # "" THEN val1
        ELSE data_push(val1.rt, IF val1.val < val2.val THEN -1 ELSE 0)

bi_gt(rt) ==
    LET val2 == data_pop(rt)
        val1 == data_pop(val2.rt)
    IN  IF val2.err # "" THEN val2
        ELSE IF val1.err # "" THEN val1
        ELSE data_push(val1.rt, IF val1.val > val2.val THEN -1 ELSE 0)

\* A >r that slides the value under the return stack
bi_retstk_push_under(rt) ==
    LET val == data_pop(rt)
    IN  IF val.err # "" THEN val
        ELSE IF Full(val.rt.ret_stk, val.rt.cap.data) THEN Fail("Panic", val.rt)
        ELSE Ok([val.rt EXCEPT !.ret_stk = << val.val >> \o @])

bi_retstk_push(rt) ==
    LET val == data_pop(rt)
    IN  IF val.err # "" THEN val ELSE ret_push(val.rt, val.val)

bi_retstk_pop(rt) ==
    LET val == ret_pop(rt)
    IN  IF val.err # "" THEN val ELSE data_push(val.rt, val.val)

bi_eq(rt) ==
    LET val1 == data_pop(rt)
        val2 == data_pop(val1.rt)
    IN  IF val1.err # "" THEN val1
        ELSE IF val2.err # "" THEN val2
        ELSE data_push(val2.rt, IF val1.val = val2.val THEN -1 ELSE 0)

bi_add(rt) ==
    LET val1 == data_pop(rt)
        val2 == data_pop(val1.rt)
    IN  IF val1.err # "" THEN val1
        ELSE IF val2.err # "" THEN val2
        ELSE data_push(val2.rt, wrapping_add(val1.val, val2.val))

\* Stack::last fails with InternalError on an empty stack
bi_dup(rt) ==
    IF rt.data_stk = << >> THEN Fail("InternalError", rt)
    ELSE data_push(rt, Top(rt.data_stk))

\* A loop step that compares the index with the limit before it adds one
bi_priv_loop_late(rt) ==
    LET lmt  == ret_pop(rt)
        idx0 == ret_pop(lmt.rt)
        idx  == checked_add_1(idx0.val)
        zero == data_push(idx0.rt, 0)
        ridx == ret_push(zero.rt, idx.val)
    IN  IF lmt.err # "" THEN lmt
        ELSE IF idx0.err # "" THEN idx0
        ELSE IF ~idx.ok THEN Fail("BadMath", idx0.rt)
        ELSE IF idx0.val = lmt.val THEN data_push(idx0.rt, -1)
        ELSE IF zero.err # "" THEN zero
        ELSE IF ridx.err # "" THEN ridx
        ELSE ret_push(ridx.rt, lmt.val)

\* The loop step the lowering of loop emits: the limit is on top of the
\* return stack, the index below it
bi_priv_loop(rt) ==
    LET lmt  == ret_pop(rt)
        idx0 == ret_pop(lmt.rt)
        idx  == checked_add_1(idx0.val)
        zero == data_push(idx0.rt, 0)
        ridx == ret_push(zero.rt, idx.val)
    IN  IF lmt.err # "" THEN lmt
        ELSE IF idx0.err # "" THEN idx0
        ELSE IF ~idx.ok THEN Fail("BadMath", idx0.rt)
        ELSE IF idx.val = lmt.val THEN data_push(idx0.rt, -1)
        ELSE IF zero.err # "" THEN zero
        ELSE IF ridx.err # "" THEN ridx
        ELSE ret_push(ridx.rt, lmt.val)

\* BuiltinToken::exec: call the function the token holds
exec(bi, rt) ==
    CASE bi = "bi_emit"        -> bi_emit(rt)
      [] bi = "bi_pop"         -> bi_pop(rt)
      [] bi = "bi_cr"          -> bi_cr(rt)
      [] bi = "bi_retstk_push" -> bi_retstk_push(rt)
      [] bi = "bi_retstk_pop"  -> bi_retstk_pop(rt)
      [] bi = "bi_eq"          -> bi_eq(rt)
      [] bi = "bi_lt"          -> bi_lt(rt)
      [] bi = "bi_gt"          -> bi_gt(rt)
      [] bi = "bi_dup"         -> bi_dup(rt)
      [] bi = "bi_add"         -> bi_add(rt)
      [] bi = "bi_priv_loop"   -> bi_priv_loop(rt)

\* ------------------------------------------------------------------ step
\* What step returns: kind is "Done", "Single" (a builtin to run, in bi),
\* "Ref" (a word to fetch: definition tok, position idx), "Err" (in err) or
\* "Panic" (an assertion of step_inner failed, or a push panicked).
StepRes(kind, rt, bi, tok, idx, err) ==
    [kind |-> kind, rt |-> rt, bi |-> bi, tok |-> tok, idx |-> idx, err |-> err]

\* A match on the top frame whose conditional jump is taken when the popped
\* value is zero and jump_on is set, or neither
match_cur_same(rt, cur) ==
    IF cur.tag = "LiteralVal"
    THEN LET pushed == data_push(rt, cur.val)
         IN  [err |-> pushed.err, rt |-> pushed.rt, has_jump |-> FALSE, jump |-> 0]
    ELSE IF cur.tag = "UncondRelativeJump"
    THEN [err |-> "", rt |-> rt, has_jump |-> TRUE, jump |-> cur.val]
    ELSE LET topvar  == data_pop(rt)
             do_jump == (topvar.val = 0) = cur.jump_on
         IN  IF topvar.err # ""
             THEN [err |-> topvar.err, rt |-> rt, has_jump |-> FALSE, jump |-> 0]
             ELSE [err |-> "", rt |-> topvar.rt, has_jump |-> do_jump, jump |-> cur.val]

\* The match on the top frame, for the words step_inner consumes itself:
\* [err, rt, has_jump, jump]
match_cur(rt, cur) ==
    IF cur.tag = "LiteralVal"
    THEN LET pushed == data_push(rt, cur.val)
         IN  [err |-> pushed.err, rt |-> pushed.rt, has_jump |-> FALSE, jump |-> 0]
    ELSE IF cur.tag = "UncondRelativeJump"
    THEN [err |-> "", rt |-> rt, has_jump |-> TRUE, jump |-> cur.val]
    ELSE \* CondRelativeJump
         LET topvar  == data_pop(rt)
             do_jump == (topvar.val = 0) # cur.jump_on
         IN  IF topvar.err # ""
             THEN [err |-> topvar.err, rt |-> rt, has_jump |-> FALSE, jump |-> 0]
             ELSE [err |-> "", rt |-> topvar.rt, has_jump |-> do_jump, jump |-> cur.val]

\* usize::MAX as the model has it: the cursor of a frame is a usize, and
\* checked_add fails above it. 2^16 - 1 is the narrowest usize of a target.
UsizeMax == 65535

\* The jump application on the frame that is on top once the jump word is
\* popped: [kind, err, flow_stk], kind "Ok", "Err" or "Panic"
apply_jump(flow_stk, jump) ==
    IF flow_stk = << >>
    THEN [kind |-> "Err", err |-> "FlowStackEmpty", flow_stk |-> flow_stk]
    ELSE IF Top(flow_stk).tag # "VerbSeq"
    THEN [kind |-> "Err", err |-> "InternalError", flow_stk |-> flow_stk]
    ELSE LET new_cur == Top(flow_stk)
             n == Len(flow_stk)
         IN  IF jump < 0
             THEN IF ~(-jump <= new_cur.idx)
                  THEN [kind |-> "Panic", err |-> "", flow_stk |-> flow_stk]
                  ELSE [kind |-> "Ok", err |-> "",
                        flow_stk |-> [flow_stk EXCEPT ![n].idx = @ - (-jump)]]
             ELSE IF jump = 0
                  THEN [kind |-> "Panic", err |-> "", flow_stk |-> flow_stk]
                  ELSE IF new_cur.idx > UsizeMax - jump
                  THEN [kind |-> "Err", err |-> "BadMath", flow_stk |-> flow_stk]
                  ELSE [kind |-> "Ok", err |-> "",
                        flow_stk |-> [flow_stk EXCEPT ![n].idx = @ + jump]]

\* Runtime::step_inner: loop until a builtin or a definition word is to be
\* handed to the host, or the flow stack is empty. step_matched continues
\* after the match on the top frame (m is match_cur's result), step_jumped
\* after the jump was applied to the frame below (popped is the runtime
\* without the jump word, j apply_jump's result).
RECURSIVE step_inner(_), step_matched(_), step_jumped(_, _)
step_jumped(popped, j) ==
    IF j.kind = "Ok" THEN step_inner([popped EXCEPT !.flow_stk = j.flow_stk])
    ELSE StepRes(j.kind, popped, "", NoTok, 0, j.err)

\* step_inner that returns Done once a literal or a jump not taken was run,
\* instead of going round its loop
step_matched_returns(m) ==
    IF m.err = "Panic" THEN StepRes("Panic", m.rt, "", NoTok, 0, "")
    ELSE IF m.err # "" THEN StepRes("Err", m.rt, "", NoTok, 0, m.err)
    ELSE IF ~m.has_jump THEN StepRes("Done", [m.rt EXCEPT !.flow_stk = Pop(@)], "", NoTok, 0, "")
    ELSE step_jumped([m.rt EXCEPT !.flow_stk = Pop(@)], apply_jump(Pop(m.rt.flow_stk), m.jump))

step_matched(m) ==
    IF m.err = "Panic" THEN StepRes("Panic", m.rt, "", NoTok, 0, "")
    ELSE IF m.err # "" THEN StepRes("Err", m.rt, "", NoTok, 0, m.err)
    ELSE IF ~m.has_jump THEN step_inner([m.rt EXCEPT !.flow_stk = Pop(@)])
    ELSE step_jumped([m.rt EXCEPT !.flow_stk = Pop(@)], apply_jump(Pop(m.rt.flow_stk), m.jump))

\* A VerbSeq arm that hands out the cursor as it is after the increment
step_seq_after(rt, cur) ==
    IF cur.idx = UsizeMax
    THEN IF rt.overflow_checks
         THEN StepRes("Panic", rt, "", NoTok, 0, "")
         ELSE StepRes("Ref", [rt EXCEPT !.flow_stk[Len(rt.flow_stk)].idx = 0], "",
                      cur.tok, 0, "")
    ELSE StepRes("Ref", [rt EXCEPT !.flow_stk[Len(rt.flow_stk)].idx = @ + 1], "",
                 cur.tok, cur.idx + 1, "")

\* The VerbSeq arm: hand out (tok, idx) and advance the cursor of the frame
step_seq(rt, cur) ==
    IF cur.idx = UsizeMax
    THEN IF rt.overflow_checks
         THEN StepRes("Panic", rt, "", NoTok, 0, "")
         ELSE StepRes("Ref", [rt EXCEPT !.flow_stk[Len(rt.flow_stk)].idx = 0], "",
                      cur.tok, cur.idx, "")
    ELSE StepRes("Ref", [rt EXCEPT !.flow_stk[Len(rt.flow_stk)].idx = @ + 1], "",
                 cur.tok, cur.idx, "")

step_inner(rt) ==
    IF rt.flow_stk = << >> THEN StepRes("Done", rt, "", NoTok, 0, "")
    ELSE IF Top(rt.flow_stk).tag = "Verb"
    THEN StepRes("Single", [rt EXCEPT !.flow_stk = Pop(@)], Top(rt.flow_stk).bi, NoTok, 0, "")
    ELSE IF Top(rt.flow_stk).tag = "VerbSeq" THEN step_seq(rt, Top(rt.flow_stk))
    ELSE step_matched(match_cur(rt, Top(rt.flow_stk)))

\* The Err arm of Runtime::step: pop the three stacks empty
step_reset(r) ==
    IF r.kind = "Err"
    THEN [r EXCEPT !.rt = [r.rt EXCEPT !.flow_stk = << >>,
                                       !.data_stk = << >>,
                                       !.ret_stk = << >>]]
    ELSE r

\* step without the Err arm: the error is passed on, the stacks are kept
step_no_reset(rt) == step_inner(rt)

\* Runtime::step
step(rt) == step_reset(step_inner(rt))

\* The host's answer to Ref: dict.data.get(tok).and_then(|n| n.inner.get(idx))
\* .map(|n| n.word)
fetch_word(data, tok, idx) ==
    IF tok \in DOMAIN data /\ idx < Len(data[tok])
    THEN Some(data[tok][idx + 1].word)
    ELSE None

\* --------------------------------------------------------- serialization
\* SerWord; one record shape for the five variants
SerLiteralVal(v) == [tag |-> "LiteralVal", val |-> v, jump_on |-> FALSE, idx |-> 0]
SerVerb(i) == [tag |-> "Verb", val |-> 0, jump_on |-> FALSE, idx |-> i]
SerVerbSeq(i) == [tag |-> "VerbSeq", val |-> 0, jump_on |-> FALSE, idx |-> i]
SerUncondRelativeJump(offset) ==
    [tag |-> "UncondRelativeJump", val |-> offset, jump_on |-> FALSE, idx |-> 0]
SerCondRelativeJump(offset, on) ==
    [tag |-> "CondRelativeJump", val |-> offset, jump_on |-> on, idx |-> 0]

\* The order of String keys in a BTreeMap: bytewise lexicographic
RECURSIVE StrLess(_, _)
StrLess(a, b) ==
    IF b = << >> THEN FALSE
    ELSE IF a = << >> THEN TRUE
    ELSE IF CharCode(Head(a)) # CharCode(Head(b)) THEN CharCode(Head(a)) < CharCode(Head(b))
    ELSE StrLess(Tail(a), Tail(b))

\* BTreeMap::iter: the keys in ascending order
RECURSIVE SortedKeys(_)
SortedKeys(S) ==
    IF S = {} THEN << >>
    ELSE LET least == CHOOSE k \in S : \A o \in S \ {k} : StrLess(k, o)
         IN  << least >> \o SortedKeys(S \ {least})

\* Iterator::position, zero-based; -1 for None
position(seq, w) ==
    IF \E i \in 1..Len(seq) : seq[i] = w
    THEN (CHOOSE i \in 1..Len(seq) : seq[i] = w /\ \A j \in 1..(i-1) : seq[j] # w) - 1
    ELSE -1

\* SerContext::new
SerContext_new == [bis |-> << >>, seqs |-> << >>]

\* An intern_bis that does not look for the name in the table
intern_bis_always_push(ctxt, word) ==
    [idx |-> Len(ctxt.bis), ctxt |-> [ctxt EXCEPT !.bis = Append(@, word)]]

\* SerContext::intern_bis; [idx, ctxt]
intern_bis(ctxt, word) ==
    IF position(ctxt.bis, word) >= 0
    THEN [idx |-> position(ctxt.bis, word), ctxt |-> ctxt]
    ELSE [idx |-> Len(ctxt.bis), ctxt |-> [ctxt EXCEPT !.bis = Append(@, word)]]

\* SerContext::intern_seq; [idx, ctxt]
intern_seq(ctxt, word) ==
    IF position(ctxt.seqs, word) >= 0
    THEN [idx |-> position(ctxt.seqs, word), ctxt |-> ctxt]
    ELSE [idx |-> Len(ctxt.seqs), ctxt |-> [ctxt EXCEPT !.seqs = Append(@, word)]]

\* SerContext::encode_rtw; [word, ctxt]. A builtin is interned under the
\* name its named word carries, a CALL under the name of its target.
encode_rtw(ctxt, word) ==
    IF word.word.tag = "LiteralVal"
    THEN [word |-> SerLiteralVal(word.word.val), ctxt |-> ctxt]
    ELSE IF word.word.tag = "Verb"
    THEN LET i == intern_bis(ctxt, word.name)
         IN  [word |-> SerVerb(i.idx), ctxt |-> i.ctxt]
    ELSE IF word.word.tag = "VerbSeq"
    THEN LET i == intern_seq(ctxt, word.word.tok)
         IN  [word |-> SerVerbSeq(i.idx), ctxt |-> i.ctxt]
    ELSE IF word.word.tag = "UncondRelativeJump"
    THEN [word |-> SerUncondRelativeJump(word.word.val), ctxt |-> ctxt]
    ELSE [word |-> SerCondRelativeJump(word.word.val, word.word.jump_on), ctxt |-> ctxt]

\* The loop of ser_srw over the words of one definition; [out, ctxt]
RECURSIVE encode_all(_, _)
encode_all(ctxt, words) ==
    IF words = << >> THEN [out |-> << >>, ctxt |-> ctxt]
    ELSE LET first == encode_rtw(ctxt, Head(words))
             others == encode_all(first.ctxt, Tail(words))
         IN  [out |-> << first.word >> \o others.out, ctxt |-> others.ctxt]

\* A ser_srw that interns the own name before it encodes the body
ser_srw_name_first(ctxt, name, words) ==
    LET enc == encode_all(intern_seq(ctxt, name).ctxt, words)
    IN  [out |-> enc.out, ctxt |-> enc.ctxt]

\* ser_srw: the body is encoded first, the own name interned after it
ser_srw(ctxt, name, words) ==
    LET enc == encode_all(ctxt, words)
    IN  [out |-> enc.out, ctxt |-> intern_seq(enc.ctxt, name).ctxt]

\* The loop of Dict::serialize over the definitions in key order; [out, ctxt]
RECURSIVE ser_defs(_, _, _, _)
ser_defs(data, keys, out, ctxt) ==
    IF keys = << >> THEN [out |-> out, ctxt |-> ctxt]
    ELSE LET one == ser_srw(ctxt, Head(keys), data[Head(keys)])
         IN  ser_defs(data, Tail(keys), MapInsert(out, Head(keys), one.out), one.ctxt)

\* SerDict. data_map is an Option: has_map FALSE is None.
SerDict(data, has_map, data_map, bis) ==
    [data |-> data, has_map |-> has_map, data_map |-> data_map, bis |-> bis]

\* Dict::serialize; [panic, ser]. out.get(&word).unwrap() panics on an
\* interned name that is no definition of the dictionary.
Dict_serialize(dict) ==
    LET done == ser_defs(dict.data, SortedKeys(DOMAIN dict.data), EmptyMap, SerContext_new)
        seqs == done.ctxt.seqs
    IN  IF \E i \in 1..Len(seqs) : seqs[i] \notin DOMAIN done.out
        THEN [panic |-> TRUE, ser |-> SerDict(<< >>, TRUE, << >>, << >>)]
        ELSE [panic |-> FALSE,
              ser |-> SerDict([i \in 1..Len(seqs) |-> done.out[seqs[i]]], TRUE, seqs,
                              done.ctxt.bis)]

\* The closure of load_ser_dict that turns one SerWord into a named word;
\* [ok, word], ok FALSE when an index lookup's unwrap panicked
load_word(ctxt, data, x) ==
    IF x.tag = "LiteralVal"
    THEN [ok |-> TRUE, word |-> Named(N_LIT(x.val), LiteralVal(x.val))]
    ELSE IF x.tag = "Verb"
    THEN IF x.idx < Len(data.bis) /\ data.bis[x.idx + 1] \in DOMAIN ctxt.dict.bis
         THEN [ok |-> TRUE,
               word |-> Named(data.bis[x.idx + 1], Verb(ctxt.dict.bis[data.bis[x.idx + 1]]))]
         ELSE [ok |-> FALSE, word |-> Named(NoTok, LiteralVal(0))]
    ELSE IF x.tag = "VerbSeq"
    THEN IF x.idx < Len(data.data_map)
         THEN [ok |-> TRUE,
               word |-> Named(data.data_map[x.idx + 1], from_word(data.data_map[x.idx + 1]))]
         ELSE [ok |-> FALSE, word |-> Named(NoTok, LiteralVal(0))]
    ELSE IF x.tag = "UncondRelativeJump"
    THEN [ok |-> TRUE,
          word |-> Named(N_UCRJ \o << "(" >> \o fmt_i32(x.val) \o << ")" >>,
                         UncondRelativeJump(x.val))]
    ELSE [ok |-> TRUE,
          word |-> Named(N_CRJ \o << "(" >> \o fmt_i32(x.val) \o << ")" >>,
                         CondRelativeJump(x.val, x.jump_on))]

\* word.iter().map(..).collect() of load_ser_dict: the words of one body;
\* [ok, words], ok FALSE when one of them panicked
RECURSIVE load_words(_, _, _)
load_words(ctxt, data, word) ==
    IF word = << >> THEN [ok |-> TRUE, words |-> << >>]
    ELSE LET first == load_word(ctxt, data, Head(word))
             others == load_words(ctxt, data, Tail(word))
         IN  IF ~first.ok \/ ~others.ok THEN [ok |-> FALSE, words |-> << >>]
             ELSE [ok |-> TRUE, words |-> << first.word >> \o others.words]

\* The loop of load_ser_dict over the zipped names and bodies, from entry i
\* on; [panic, ctxt]. Entries before a panicking one stay inserted.
RECURSIVE load_entries(_, _, _)
load_entries(ctxt, data, i) ==
    IF i > Len(data.data_map) \/ i > Len(data.data) THEN [panic |-> FALSE, ctxt |-> ctxt]
    ELSE LET cword == load_words(ctxt, data, data.data[i])
         IN  IF ~cword.ok THEN [panic |-> TRUE, ctxt |-> ctxt]
             ELSE load_entries(
                      [ctxt EXCEPT !.dict.data = MapInsert(@, data.data_map[i], cword.words)],
                      data, i + 1)

\* A load_ser_dict that does not compare the artifact's builtins with the
\* registry before it converts the bodies
load_ser_dict_unchecked(ctxt, data) ==
    IF ~data.has_map
    THEN [panic |-> FALSE, refused |-> "no name map", ctxt |-> ctxt]
    ELSE IF Len(data.data_map) # Len(data.data)
    THEN [panic |-> FALSE, refused |-> "size mismatch", ctxt |-> ctxt]
    ELSE LET loaded == load_entries(ctxt, data, 1)
         IN  [panic |-> loaded.panic, refused |-> "", ctxt |-> loaded.ctxt]

\* Context::load_ser_dict; [panic, refused, ctxt]. refused names the message
\* of the early return, "" when the dictionary was loaded.
load_ser_dict(ctxt, data) ==
    IF ~data.has_map
    THEN [panic |-> FALSE, refused |-> "no name map", ctxt |-> ctxt]
    ELSE IF ~(\A i \in 1..Len(data.bis) : data.bis[i] \in DOMAIN ctxt.dict.bis)
    THEN [panic |-> FALSE, refused |-> "missing builtins", ctxt |-> ctxt]
    ELSE IF Len(data.data_map) # Len(data.data)
    THEN [panic |-> FALSE, refused |-> "size mismatch", ctxt |-> ctxt]
    ELSE LET loaded == load_entries(ctxt, data, 1)
         IN  [panic |-> loaded.panic, refused |-> "", ctxt |-> loaded.ctxt]

\* ------------------------------------------------------ embedded runtime
\* nostd_rt::new_runtime::<DATA_SZ, FLOW_SZ, OUTBUF_SZ>
nostd_new_runtime(DATA_SZ, FLOW_SZ, OUTBUF_SZ) ==
    Runtime([data |-> DATA_SZ, flow |-> FLOW_SZ, out |-> OUTBUF_SZ])

\* nostd_builtins(): the names the embedded runtime resolves
nostd_builtins ==
    << << << "e", "m", "i", "t" >>, "bi_emit" >>,
       << << "." >>, "bi_pop" >>,
       << << "c", "r" >>, "bi_cr" >>,
       << << ">", "r" >>, "bi_retstk_push" >>,
       << << "r", ">" >>, "bi_retstk_pop" >>,
       << << "=" >>, "bi_eq" >>,
       << << "<" >>, "bi_lt" >>,
       << << ">" >>, "bi_gt" >>,
       << << "d", "u", "p" >>, "bi_dup" >>,
       << << "+" >>, "bi_add" >> >>

\* .iter().find(|(k, _v)| k == bi): the first pair of that name, 0 for None
find_builtin(list, bi) ==
    IF \E i \in 1..Len(list) : list[i][1] = bi
    THEN CHOOSE i \in 1..Len(list) : list[i][1] = bi /\ \A j \in 1..(i-1) : list[j][1] # bi
    ELSE 0

\* The match of from_ser_dict on one SerWord, bis being the builtin LUT;
\* [ok, word], ok FALSE when bis[idx] is out of range
nostd_word(bis, seqstp) ==
    IF seqstp.tag = "LiteralVal" THEN [ok |-> TRUE, word |-> LiteralVal(seqstp.val)]
    ELSE IF seqstp.tag = "Verb"
    THEN IF seqstp.idx < Len(bis) THEN [ok |-> TRUE, word |-> Verb(bis[seqstp.idx + 1])]
         ELSE [ok |-> FALSE, word |-> LiteralVal(0)]
    ELSE IF seqstp.tag = "VerbSeq" THEN [ok |-> TRUE, word |-> VerbSeq(seqstp.idx, 0)]
    ELSE IF seqstp.tag = "UncondRelativeJump"
    THEN [ok |-> TRUE, word |-> UncondRelativeJump(seqstp.val)]
    ELSE [ok |-> TRUE, word |-> CondRelativeJump(seqstp.val, seqstp.jump_on)]

\* NoStdContext::from_ser_dict; [panic, rt, seq]. The name map is not read.
\* The pushes into the heapless vectors cannot fail: the SerDictFixed the
\* function is given has the capacities of the vectors it fills.
from_ser_dict(dict, DATA_SZ, FLOW_SZ, OUTBUF_SZ) ==
    LET rt    == nostd_new_runtime(DATA_SZ, FLOW_SZ, OUTBUF_SZ)
        found == [i \in 1..Len(dict.bis) |-> find_builtin(nostd_builtins, dict.bis[i])]
        bis   == [i \in 1..Len(dict.bis) |-> nostd_builtins[found[i]][2]]
        seqs  == [s \in 1..Len(dict.data) |->
                    [k \in 1..Len(dict.data[s]) |-> nostd_word(bis, dict.data[s][k])]]
    IN  IF \E i \in 1..Len(found) : found[i] = 0
        THEN [panic |-> TRUE, rt |-> rt, seq |-> << >>]
        ELSE IF \E s \in 1..Len(seqs) : \E k \in 1..Len(seqs[s]) : ~seqs[s][k].ok
        THEN [panic |-> TRUE, rt |-> rt, seq |-> << >>]
        ELSE [panic |-> FALSE, rt |-> rt,
              seq |-> [s \in 1..Len(seqs) |-> [k \in 1..Len(seqs[s]) |-> seqs[s][k].word]]]

\* self.seq.get(rtw.tok).and_then(|n| n.get(rtw.idx))
nostd_fetch(seq, tok, idx) ==
    IF tok < Len(seq) /\ idx < Len(seq[tok + 1]) THEN Some(seq[tok + 1][idx + 1]) ELSE None

\* How an iteration of a host loop ends once the builtin has run or the
\* word was provided: both results are unwrapped; [kind, err, rt]
unwrapped(r) == [kind |-> IF r.err # "" THEN "Panic" ELSE "Working", err |-> r.err, rt |-> r.rt]

\* The match on step's result in NoStdContext::run_blocking
run_blocking_match(r, seq) ==
    IF r.kind = "Single" THEN unwrapped(exec(r.bi, r.rt))
    ELSE IF r.kind = "Ref"
    THEN unwrapped(provide_seq_tok(r.rt, nostd_fetch(seq, r.tok, r.idx)))
    ELSE IF r.kind = "Done" THEN [kind |-> "Ok", err |-> "", rt |-> r.rt]
    ELSE IF r.kind = "Err" THEN [kind |-> "Err", err |-> r.err, rt |-> r.rt]
    ELSE [kind |-> "Panic", err |-> "", rt |-> r.rt]

\* One iteration of the loop of NoStdContext::run_blocking; [kind, err, rt]:
\* kind "Working" (the loop goes on), "Ok" (Done: break), "Err" (the error
\* of step, returned) or "Panic" (an unwrap or an assertion)
run_blocking(rt, seq) == run_blocking_match(step(rt), seq)

\* ------------------------------------------------------------ the lines
\* Source lines are sequences of tokens, as split_whitespace leaves them.
Num(n) == fmt_i32(n)
W_emit == << "e", "m", "i", "t" >>
W_star == << "s", "t", "a", "r" >>
W_foo  == << "f", "o", "o" >>
Star   == << Num(42), W_emit >>
Plus2  == << Num(43), W_emit, Num(43), W_emit >>
Rest   == << Num(44), W_emit >>
Plus   == << Num(43), W_emit >>

MaxLimit == 3
MaxNest == 2
MaxLines == 2

\* limit index do 42 emit loop
LoopLine(l, i) == << Num(l), Num(i), T_do >> \o Star \o << T_loop >>
LoopPairs == { p \in (0..MaxLimit) \X ((-1)..(MaxLimit - 1)) : p[1] > p[2] }
LoopLines == { LoopLine(p[1], p[2]) : p \in LoopPairs }
\* L1 I1 do L2 I2 do 42 emit loop loop
NestLine(l1, i1, l2, i2) ==
    << Num(l1), Num(i1), T_do, Num(l2), Num(i2), T_do >> \o Star \o << T_loop, T_loop >>
NestPairs == { p \in (1..MaxNest) \X (0..(MaxNest - 1)) : p[1] > p[2] }
NestLines == { NestLine(o[1], o[2], n[1], n[2]) : o \in NestPairs, n \in NestPairs }
\* limit = index; chosen next to i32::MAX so that the run is short
EqLine == LoopLine(I32Max - 1, I32Max - 1)
\* flag if body then 44 emit
Flags == { 0, 1, -1 }
IfLine(flag, body) == << Num(flag), T_if >> \o body \o << T_then >> \o Rest
IfLines == { IfLine(flag, body) : flag \in Flags, body \in { << >>, Star } }
\* flag if A else B then 44 emit
IfElseLine(flag, A, B) ==
    << Num(flag), T_if >> \o A \o << T_else >> \o B \o << T_then >> \o Rest
IfElseLines ==
    { IfElseLine(flag, A, B) : flag \in Flags, A \in { << >>, Star }, B \in { << >>, Plus2 } }
\* a b if 42 emit if 42 emit else 43 emit 43 emit then then: the conditional
\* of the smoke cases that nests in the if arm
NestedIfLine(a, b) ==
    << Num(a), Num(b), T_if >> \o Star \o << T_if >> \o Star \o << T_else >> \o Plus2
    \o << T_then, T_then >>
\* a b if 42 emit else if 43 emit else 44 emit then then: nesting in the else arm
NestedElseLine(a, b) ==
    << Num(a), Num(b), T_if >> \o Star \o << T_else, T_if >> \o Plus \o << T_else >> \o Rest
    \o << T_then, T_then >>
\* a b c if if if 42 emit then then then: three deep
DeepIfLine(a, b, c) ==
    << Num(a), Num(b), Num(c), T_if, T_if, T_if >> \o Star \o << T_then, T_then, T_then >>
NestedIfLines ==
    { NestedIfLine(a, b) : a \in Flags, b \in Flags }
    \cup { NestedElseLine(a, b) : a \in Flags, b \in Flags }
    \cup { DeepIfLine(a, b, c) : a \in { 0, 1 }, b \in { 0, 1 }, c \in { 0, 1 } }
\* definitions and calls
DefStar == << T_colon, W_star >> \o Star \o << T_semi >>
W_STAR == << "S", "T", "A", "R" >>
W_nop == << "n", "o", "p" >>
DefUpper == << T_colon, W_STAR >> \o Star \o << T_semi >>
DefEmpty == << T_colon, W_nop, T_semi >>
\* a definition named like a number, a definition named like a builtin
DefNum == << T_colon, Num(7) >> \o Star \o << T_semi >>
DefEmit == << T_colon, W_emit >> \o Plus \o << T_semi >>
\* a definition named like the first anonymous line
W_anon0 == << "_", "_", "0" >>
DefAnon == << T_colon, W_anon0 >> \o Star \o << T_semi >>
DefLines == { DefStar, DefUpper, DefEmpty, DefNum, DefEmit, DefAnon }
CallNum == << Num(7) >>
CallLines == { << W_star >>, << W_star, W_star >> }
\* a b op, for the three comparisons
W_lt == << "<" >>
W_gt == << ">" >>
W_eq == << "=" >>
CmpVals == { -1, 0, I32Max }
CmpLine(a, b, op) == << Num(a), Num(b), op >>
CmpLines == { CmpLine(a, b, op) : a \in CmpVals, b \in CmpVals, op \in { W_lt, W_gt, W_eq } }
\* a b +, with sums inside and outside the range of an i32
W_plus == << "+" >>
AddPairs ==
    { << 1, 1 >>, << -1, 1 >>, << I32Max, 1 >>, << I32Max, I32Max >>,
      << I32Min, -1 >>, << I32Min, I32Min >> }
AddLine(a, b) == << Num(a), Num(b), W_plus >>
AddLines == { AddLine(p[1], p[2]) : p \in AddPairs }
\* lines written with capitals, each with the line it is a respelling of
CallUpper == << W_STAR >>
LoopUpper ==
    << Num(2), Num(0), << "D", "O" >>, Num(42), << "E", "M", "I", "T" >>,
       << "L", "o", "O", "p" >> >>
IfElseUpper ==
    << Num(0), << "I", "f" >>, Num(42), << "e", "m", "i", "T" >>, << "E", "L", "S", "E" >> >>
    \o Plus2 \o << << "T", "h", "e", "n" >> >> \o Rest
CasePairs ==
    { << DefUpper, DefStar >>, << CallUpper, << W_star >> >>,
      << LoopUpper, LoopLine(2, 0) >>, << IfElseUpper, IfElseLine(0, Star, Plus2) >> }
\* a call before a loop, a call in its body and a call after it
CallLoopLine ==
    << W_star, Num(2), Num(0), T_do >> \o Plus \o << W_star, T_loop >> \o Rest \o << W_star >>
\* a loop with nothing between do and loop
EmptyLoopLine == << Num(1), Num(0), T_do, T_loop >>
\* lines that leave something behind
Leave42 == << Num(42) >>
LeaveRet == << Num(1), N_to_r >>
\* lines the compiler cannot compile
UnknownLine == << W_foo >>
RangeLine == << << "2", "1", "4", "7", "4", "8", "3", "6", "4", "8" >> >>
NoThenLine == << T_if >> \o Star
NoLoopLine == << Num(1), Num(0), T_do >> \o Star
NoNameLine == << T_colon, T_semi >>
BadLines == { UnknownLine, RangeLine, NoThenLine, NoLoopLine, NoNameLine }
\* lines that compile and fail when run on an empty data stack
IfUnderflowLine == << T_if >> \o Star \o << T_then >>
EmitUnderflowLine == << W_emit >>
\* = finds one value where it needs two, with a value on the return stack
EqUnderflowLine == << Num(1), Num(1), N_to_r, << "=" >> >>

Lines ==
    LoopLines \cup NestLines \cup { EqLine } \cup IfLines \cup IfElseLines
    \cup DefLines \cup CallLines \cup { CallLoopLine, CallNum, Star, Leave42, LeaveRet }
    \cup { CallUpper, LoopUpper, IfElseUpper, EmptyLoopLine } \cup CmpLines
    \cup BadLines
    \cup { IfUnderflowLine, EmitUnderflowLine, EqUnderflowLine }

\* ------------------------------------------------------------- the state
VARIABLES
    ctxt,     \* the host's Context: [rt, dict]
    pc,       \* where the host is: "read", "step", "single", "ref", "done", "err",
              \* "compile_panic", "compile_err", "run_panic", "exit_ok"
    res,      \* what the last step returned: [kind, bi, tok, idx, err]
    input,    \* the line the host is executing
    nlines,   \* how many lines were given to evaluate
    pre,      \* the Context before the evaluate of the current line
    fetched,  \* the host's last answer to a Ref: [tok, idx, c]
    ser,      \* the SerDict the compile subcommand produced
    ld,       \* the Context that loaded ser: [panic, refused, ctxt]
    ns,       \* the NoStdContext built from ser: [panic, rt, seq]
    outs,     \* the runs of one entry point: [entry, stack, orig, std, nostd]
    io        \* the ledger of a caller of the Runtime: [written, returned, errors],
              \* all that the builtins it ran wrote, all that exchange_output
              \* handed to it, and the errors of step the host has printed on
              \* the standard error stream

vars == << ctxt, pc, res, input, nlines, pre, fetched, ser, ld, ns, outs, io >>
host_vars == << ctxt, pc, res, input, nlines, pre, fetched >>
host_vars_but_pc == << ctxt, res, input, nlines, pre, fetched >>
rt_vars == << ser, ld, ns, outs, io >>

NoRes == [kind |-> "", bi |-> "", tok |-> NoTok, idx |-> 0, err |-> ""]
NoFetch == [tok |-> NoTok, idx |-> 0, c |-> None]
NoRun == [kind |-> "", err |-> "", rt |-> new_runtime]
NoIo == [written |-> << >>, returned |-> << >>, errors |-> << >>]
NoOuts == [entry |-> NoTok, stack |-> << >>, orig |-> NoRun, std |-> NoRun, nostd |-> NoRun]

\* run_main after Context::with_builtins(std_builtins())
Init ==
    /\ ctxt = with_builtins(std_builtins)
    /\ pc = "read"
    /\ res = NoRes
    /\ input = << >>
    /\ nlines = 0
    /\ pre = with_builtins(std_builtins)
    /\ fetched = NoFetch
    /\ ser = SerDict(<< >>, FALSE, << >>, << >>)
    /\ ld = [panic |-> FALSE, refused |-> "", ctxt |-> with_builtins(std_builtins)]
    /\ ns = [panic |-> FALSE, rt |-> new_runtime, seq |-> << >>]
    /\ outs = NoOuts
    /\ io = NoIo

\* ------------------------------------------------------- run_main's loop
\* ctxt.evaluate(input)?; a panic of the compiler ends the process, an Err
\* would end run_main with that error
Evaluated(r) ==
    /\ ctxt' = r.ctxt
    /\ pc' = IF r.panic THEN "compile_panic"
             ELSE IF r.err # "" THEN "compile_err"
             ELSE "step"
    /\ res' = [NoRes EXCEPT !.err = r.err]
Evaluate(line) ==
    /\ pc = "read"
    /\ nlines < MaxLines
    /\ Evaluated(evaluate(ctxt, line))
    /\ pre' = ctxt
    /\ input' = line
    /\ nlines' = nlines + 1
    /\ UNCHANGED << fetched, rt_vars >>

\* match ctxt.step()
Stepped(r) ==
    /\ ctxt' = [ctxt EXCEPT !.rt = r.rt]
    /\ res' = [kind |-> r.kind, bi |-> r.bi, tok |-> r.tok, idx |-> r.idx, err |-> r.err]
    /\ pc' = CASE r.kind = "Single" -> "single"
               [] r.kind = "Ref"    -> "ref"
               [] r.kind = "Done"   -> "done"
               [] r.kind = "Err"    -> "err"
               [] r.kind = "Panic"  -> "run_panic"
\* Err(e) => eprintln!("ERROR! -> {:?}", e)
Reported(r) ==
    io' = IF r.kind = "Err" THEN [io EXCEPT !.errors = Append(@, r.err)] ELSE io
Step ==
    /\ pc = "step"
    /\ Stepped(step(ctxt.rt))
    /\ Reported(step(ctxt.rt))
    /\ UNCHANGED << input, nlines, pre, fetched, ser, ld, ns, outs >>

\* Single(ft) => ft.exec(&mut ctxt.rt).unwrap()
Executed(e) ==
    /\ ctxt' = [ctxt EXCEPT !.rt = e.rt]
    /\ pc' = IF e.err # "" THEN "run_panic" ELSE "step"
    /\ res' = [res EXCEPT !.err = e.err]
HostExec ==
    /\ pc = "single"
    /\ Executed(exec(res.bi, ctxt.rt))
    /\ UNCHANGED << input, nlines, pre, fetched, rt_vars >>

\* Ref(rtw) => look the word up, ctxt.rt.provide_seq_tok(c).unwrap()
Provided(c, p) ==
    /\ ctxt' = [ctxt EXCEPT !.rt = p.rt]
    /\ pc' = IF p.err # "" THEN "run_panic" ELSE "step"
    /\ fetched' = [tok |-> res.tok, idx |-> res.idx, c |-> c]
HostProvide ==
    /\ pc = "ref"
    /\ Provided(fetch_word(ctxt.dict.data, res.tok, res.idx),
                provide_seq_tok(ctxt.rt, fetch_word(ctxt.dict.data, res.tok, res.idx)))
    /\ UNCHANGED << res, input, nlines, pre, rt_vars >>

\* After the loop: prune the anonymous entries, print (which exchanges the
\* output), and go on to the next line
HostFinish ==
    /\ pc \in { "done", "err" }
    /\ LET pruned == [ctxt EXCEPT !.dict.data = retain_named(@)]
           printed == exchange_output(pruned.rt)
       IN  /\ ctxt' = [pruned EXCEPT !.rt = printed.rt]
           /\ pre' = [pruned EXCEPT !.rt = printed.rt]
    /\ pc' = "read"
    /\ res' = NoRes
    /\ input' = << >>
    /\ fetched' = NoFetch
    /\ UNCHANGED << nlines, rt_vars >>

\* The file has no more lines: run_main returns Ok(()), main returns it and
\* the process exits with status 0
HostExit ==
    /\ pc = "read"
    /\ pc' = "exit_ok"
    /\ UNCHANGED << host_vars_but_pc, rt_vars >>

Next ==
    \/ \E line \in Lines : Evaluate(line)
    \/ Step
    \/ HostExec
    \/ HostProvide
    \/ HostFinish
    \/ HostExit

Spec == Init /\ [][Next]_vars

\* The loop of the tests of the host (single_lines, multi_lines): the line
\* has run to Done and the next line is evaluated on the dictionary as it
\* is; nothing is pruned and the output is read at the end
HostKeep ==
    /\ pc = "done"
    /\ pc' = "read"
    /\ res' = NoRes
    /\ input' = << >>
    /\ fetched' = NoFetch
    /\ pre' = ctxt
    /\ UNCHANGED << ctxt, nlines, rt_vars >>

\* A Context in the hands of a host that prunes after a line or does not
LibNext ==
    \/ \E line \in Lines : Evaluate(line)
    \/ Step
    \/ HostExec
    \/ HostProvide
    \/ HostFinish
    \/ HostKeep

SpecLib == Init /\ [][LibNext]_vars

\* ------------------------------------------------- the runtime as a library
\* A caller of the Runtime that owns no dictionary: it pushes words of its
\* choice with push_exec, steps, runs the builtin step hands out and answers
\* a Ref with a word of its choice or with None.
MaxCalls == 5

ApiWords ==
    { LiteralVal(1), LiteralVal(0),
      UncondRelativeJump(1), UncondRelativeJump(-1), UncondRelativeJump(UsizeMax),
      CondRelativeJump(1, FALSE), CondRelativeJump(-1, TRUE),
      Verb("bi_emit"), VerbSeq(W_star, 0) }

ApiIdle == { "read", "ref", "done", "err" }

\* A fresh runtime, in a build of either profile
ApiInit ==
    /\ \E checks \in BOOLEAN :
         /\ ctxt = [with_builtins(std_builtins) EXCEPT !.rt.overflow_checks = checks]
         /\ pre = [with_builtins(std_builtins) EXCEPT !.rt.overflow_checks = checks]
    /\ pc = "read"
    /\ res = NoRes
    /\ input = << >>
    /\ nlines = 0
    /\ fetched = NoFetch
    /\ ser = SerDict(<< >>, FALSE, << >>, << >>)
    /\ ld = [panic |-> FALSE, refused |-> "", ctxt |-> with_builtins(std_builtins)]
    /\ ns = [panic |-> FALSE, rt |-> new_runtime, seq |-> << >>]
    /\ outs = NoOuts
    /\ io = NoIo

\* What a call has appended to the output: the sink after it, less the sink
\* before it
Wrote(before, after) ==
    SubSeq(after.cur_output, Len(before.cur_output) + 1, Len(after.cur_output))

\* rt.push_exec(word)
ApiPushed(p) ==
    /\ ctxt' = [ctxt EXCEPT !.rt = p.rt]
    /\ pc' = IF p.err # "" THEN "run_panic" ELSE "read"
ApiPushExec(word) ==
    /\ pc \in ApiIdle
    /\ nlines < MaxCalls
    /\ ApiPushed(push_exec(ctxt.rt, word))
    /\ nlines' = nlines + 1
    /\ pre' = ctxt
    /\ UNCHANGED << res, input, fetched, rt_vars >>

\* rt.step()
ApiStep ==
    /\ pc \in ApiIdle
    /\ nlines < MaxCalls
    /\ Stepped(step(ctxt.rt))
    /\ nlines' = nlines + 1
    /\ pre' = ctxt
    /\ UNCHANGED << input, fetched, rt_vars >>

\* ft.exec(&mut rt); the caller sees the builtin's error as a value
ApiExecuted(e) ==
    /\ ctxt' = [ctxt EXCEPT !.rt = e.rt]
    /\ pc' = IF e.err = "Panic" THEN "run_panic" ELSE "read"
    /\ res' = [res EXCEPT !.err = e.err]
    /\ io' = [io EXCEPT !.written = @ \o Wrote(ctxt.rt, e.rt)]
ApiExec ==
    /\ pc = "single"
    /\ ApiExecuted(exec(res.bi, ctxt.rt))
    /\ pre' = ctxt
    /\ UNCHANGED << input, nlines, fetched, ser, ld, ns, outs >>

\* rt.provide_seq_tok(c)
ApiProvided(c, p) ==
    /\ ctxt' = [ctxt EXCEPT !.rt = p.rt]
    /\ pc' = IF p.err = "Panic" THEN "run_panic" ELSE "read"
    /\ fetched' = [tok |-> res.tok, idx |-> res.idx, c |-> c]
ApiProvide(c) ==
    /\ pc = "ref"
    /\ nlines < MaxCalls
    /\ ApiProvided(c, provide_seq_tok(ctxt.rt, c))
    /\ nlines' = nlines + 1
    /\ pre' = ctxt
    /\ UNCHANGED << res, input, rt_vars >>

\* rt.exchange_output()
ApiExchanged(x) ==
    /\ ctxt' = [ctxt EXCEPT !.rt = x.rt]
    /\ io' = [io EXCEPT !.returned = @ \o x.out]
ApiExchange ==
    /\ pc \in ApiIdle
    /\ ctxt.rt.cur_output # << >>
    /\ ApiExchanged(exchange_output(ctxt.rt))
    /\ pre' = ctxt
    /\ UNCHANGED << pc, res, input, nlines, fetched, ser, ld, ns, outs >>

ApiNext ==
    \/ \E word \in ApiWords : ApiPushExec(word)
    \/ ApiStep
    \/ ApiExec
    \/ \E word \in ApiWords : ApiProvide(Some(word))
    \/ ApiProvide(None)
    \/ ApiExchange

SpecApi == ApiInit /\ [][ApiNext]_vars

\* ------------------------------------------------ compile, load and run
\* The match on step's result in the loop of run_main (and of repl_main)
run_line_match(r, data) ==
    IF r.kind = "Single" THEN unwrapped(exec(r.bi, r.rt))
    ELSE IF r.kind = "Ref"
    THEN unwrapped(provide_seq_tok(r.rt, fetch_word(data, r.tok, r.idx)))
    ELSE IF r.kind = "Done" THEN [kind |-> "Ok", err |-> "", rt |-> r.rt]
    ELSE IF r.kind = "Err" THEN [kind |-> "Err", err |-> r.err, rt |-> r.rt]
    ELSE [kind |-> "Panic", err |-> "", rt |-> r.rt]

\* One iteration of the loop of run_main (and of repl_main) around step, on
\* a runtime and the definitions data; [kind, err, rt]: kind "Working", "Ok"
\* (Done: break true), "Err" (the error of step: break false) or "Panic"
run_line(rt, data) == run_line_match(step(rt), data)

\* The loop of run_main around step, run until it breaks or the process
\* ends; [kind, err, rt] with kind "Ok", "Err" or "Panic"
RECURSIVE run_main_loop(_, _)
run_main_loop(rt, data) ==
    LET r == run_line(rt, data)
    IN  IF r.kind = "Working" THEN run_main_loop(r.rt, data) ELSE r

\* rt.push_exec(entry), then one push_exec(LiteralVal(v)) per value of the
\* initial data stack, the bottom value pushed last so that it is stepped
\* first; [err, rt, val]
RECURSIVE push_literals(_, _)
push_literals(rt, stack) ==
    IF stack = << >> THEN Ok(rt)
    ELSE LET p == push_exec(rt, LiteralVal(stack[Len(stack)]))
         IN  IF p.err # "" THEN p ELSE push_literals(p.rt, Pop(stack))
start_entry(rt, entry, stack) ==
    LET p == push_exec(rt, entry)
    IN  IF p.err # "" THEN p ELSE push_literals(p.rt, stack)

\* A run that has been started: [kind, err, rt]
Started(p) == [kind |-> IF p.err # "" THEN "Panic" ELSE "Working", err |-> p.err, rt |-> p.rt]
Aborted(rt) == [kind |-> "Panic", err |-> "", rt |-> rt]

\* The capacities of the embedded context of ser_de's test and of the
\* playground: NoStdContext<32, 16, 128, 4, 16>
DATA_SZ == 32
FLOW_SZ == 16
OUTBUF_SZ == 128

W_mstar == << "m", "s", "t", "a", "r" >>
W_two   == << "t", "w", "o" >>
W_test  == << "t", "e", "s", "t" >>
W_dot   == << "." >>
W_pr    == << "p", "r" >>
DefMstar ==
    << T_colon, W_mstar, T_if, W_star, T_else, W_star, W_star, T_then, T_semi >>
DefTwo  == << T_colon, W_two, W_star, W_star, T_semi >>
DefTest == << T_colon, W_test, Num(2), Num(0), T_do >> \o Star \o << T_loop, T_semi >>
DefDot  == << T_colon, W_pr, W_dot, T_semi >>
RtDefs == { DefStar, DefMstar, DefTwo, DefTest, DefDot }
RtEntries == { W_star, W_mstar, W_two, W_test, W_pr }
MaxDefs == 2
InitStacks == { << >>, << 0 >>, << -1 >> }

\* compile_main after Context::with_builtins(std_builtins())
RtInit ==
    /\ ctxt = with_builtins(std_builtins)
    /\ pc = "build"
    /\ res = NoRes
    /\ input = << >>
    /\ nlines = 0
    /\ pre = with_builtins(std_builtins)
    /\ fetched = NoFetch
    /\ ser = SerDict(<< >>, FALSE, << >>, << >>)
    /\ ld = [panic |-> FALSE, refused |-> "", ctxt |-> with_builtins(std_builtins)]
    /\ ns = [panic |-> FALSE, rt |-> new_runtime, seq |-> << >>]
    /\ outs = NoOuts
    /\ io = NoIo

\* compile_main: ctxt.evaluate(parts)? for one line of the source file
RtDefined(r) ==
    /\ ctxt' = r.ctxt
    /\ pc' = IF r.panic THEN "compile_panic" ELSE "build"
RtDefine(line) ==
    /\ pc = "build"
    /\ nlines < MaxDefs
    /\ RtDefined(evaluate(ctxt, line))
    /\ pre' = ctxt
    /\ input' = line
    /\ nlines' = nlines + 1
    /\ UNCHANGED << res, fetched, rt_vars >>

\* compile_main after the last line: prune the anonymous entries, serialize
RtSerialized(s) ==
    /\ ser' = s.ser
    /\ pc' = IF s.panic THEN "run_panic" ELSE "serialized"
RtSerialize ==
    /\ pc = "build"
    /\ nlines > 0
    /\ ctxt' = [ctxt EXCEPT !.dict.data = retain_named(@)]
    /\ RtSerialized(Dict_serialize([ctxt.dict EXCEPT !.data = retain_named(@)]))
    /\ UNCHANGED << res, input, nlines, pre, fetched, ld, ns, outs, io >>

\* repl_main with an .a4 file: a fresh Context loads the dictionary
RtLoadStd ==
    /\ pc = "serialized"
    /\ ld' = load_ser_dict(with_builtins(std_builtins), ser)
    /\ pc' = "std_loaded"
    /\ UNCHANGED << host_vars_but_pc, ser, ns, outs, io >>

\* The embedded program: NoStdContext::from_ser_dict(&loaded)
RtLoadNoStd ==
    /\ pc = "std_loaded"
    /\ ns' = from_ser_dict(ser, DATA_SZ, FLOW_SZ, OUTBUF_SZ)
    /\ pc' = "loaded"
    /\ UNCHANGED << host_vars_but_pc, ser, ld, outs, io >>

\* One entry point is started on the three dictionaries, each on a fresh
\* runtime, from the same data stack
RtStart(entry, stack) ==
    /\ pc = "loaded"
    /\ entry \in DOMAIN ctxt.dict.data
    /\ outs' = [entry |-> entry, stack |-> stack,
                orig  |-> Started(start_entry(new_runtime, from_word(entry), stack)),
                std   |-> IF ld.panic THEN Aborted(ld.ctxt.rt)
                          ELSE Started(start_entry(ld.ctxt.rt, from_word(entry), stack)),
                nostd |-> IF ns.panic THEN Aborted(ns.rt)
                          ELSE Started(start_entry(ns.rt,
                                   VerbSeq(position(ser.data_map, entry), 0), stack))]
    /\ pc' = "run_orig"
    /\ UNCHANGED << host_vars_but_pc, ser, ld, ns, io >>

\* The host loop on the dictionary that was compiled
RtRunOrig ==
    /\ pc = "run_orig"
    /\ IF outs.orig.kind = "Working"
       THEN /\ outs' = [outs EXCEPT !.orig = run_line(outs.orig.rt, ctxt.dict.data)]
            /\ pc' = pc
       ELSE /\ outs' = outs
            /\ pc' = "run_std"
    /\ UNCHANGED << host_vars_but_pc, ser, ld, ns, io >>

\* The host loop on the dictionary load_ser_dict built
RtRunStd ==
    /\ pc = "run_std"
    /\ IF outs.std.kind = "Working"
       THEN /\ outs' = [outs EXCEPT !.std = run_line(outs.std.rt, ld.ctxt.dict.data)]
            /\ pc' = pc
       ELSE /\ outs' = outs
            /\ pc' = "run_nostd"
    /\ UNCHANGED << host_vars_but_pc, ser, ld, ns, io >>

\* run_blocking on the context from_ser_dict built
RtRunNoStd ==
    /\ pc = "run_nostd"
    /\ IF outs.nostd.kind = "Working"
       THEN /\ outs' = [outs EXCEPT !.nostd = run_blocking(outs.nostd.rt, ns.seq)]
            /\ pc' = pc
       ELSE /\ outs' = outs
            /\ pc' = "ran"
    /\ UNCHANGED << host_vars_but_pc, ser, ld, ns, io >>

RtNext ==
    \/ \E line \in RtDefs : RtDefine(line)
    \/ RtSerialize
    \/ RtLoadStd
    \/ RtLoadNoStd
    \/ \E entry \in RtEntries : \E stack \in InitStacks : RtStart(entry, stack)
    \/ RtRunOrig
    \/ RtRunStd
    \/ RtRunNoStd

SpecRoundTrip == RtInit /\ [][RtNext]_vars

\* ------------------------------------------------------ loading a file
\* A serialized dictionary arrives from outside (the .a4 file of repl_main,
\* the program bytes of the embedded binary): postcard accepts every value
\* of the SerDict type, also one no compiler has written.
MaxArtDefs == 2

W_a   == << "a" >>
W_b   == << "b" >>
W_zap == << "z", "a", "p" >>
DefA  == << T_colon, W_a >> \o Star \o << T_semi >>
LdTargetDefs == { DefA }

\* The bodies of an artifact: a literal; builtin 0; a builtin index and a
\* definition index that no table of these artifacts has; a jump that leaves
\* its body; a jump to the end of its body
ArtBodies ==
    { << SerLiteralVal(1) >>,
      << SerVerb(0) >>,
      << SerVerb(MaxArtDefs + 2) >>,
      << SerVerbSeq(MaxArtDefs + 2) >>,
      << SerUncondRelativeJump(5) >>,
      << SerLiteralVal(0), SerCondRelativeJump(1, FALSE), SerVerb(0) >> }
RECURSIVE SeqsUpTo(_, _)
SeqsUpTo(S, n) ==
    IF n = 0 THEN { << >> }
    ELSE LET shorter == SeqsUpTo(S, n - 1)
         IN  shorter \cup { Append(q, x) : q \in shorter, x \in S }
ArtData == SeqsUpTo(ArtBodies, MaxArtDefs)
ArtMaps == { << >>, << W_a >>, << W_b >>, << W_a, W_b >>, << W_b, W_a >> }
ArtBis  == { << >>, << W_emit >>, << W_emit, N_PRIV_LOOP >>, << W_zap >> }
Artifacts ==
    { SerDict(d, TRUE, m, b) : d \in ArtData, m \in ArtMaps, b \in ArtBis }
    \cup { SerDict(d, FALSE, << >>, b) : d \in ArtData, b \in ArtBis }

\* repl_main after Context::with_builtins(std_builtins())
LdInit ==
    /\ ctxt = with_builtins(std_builtins)
    /\ pc = "build"
    /\ res = NoRes
    /\ input = << >>
    /\ nlines = 0
    /\ pre = with_builtins(std_builtins)
    /\ fetched = NoFetch
    /\ ser = SerDict(<< >>, FALSE, << >>, << >>)
    /\ ld = [panic |-> FALSE, refused |-> "", ctxt |-> with_builtins(std_builtins)]
    /\ ns = [panic |-> FALSE, rt |-> new_runtime, seq |-> << >>]
    /\ outs = NoOuts
    /\ io = NoIo

\* The context that is to load holds definitions of its own
LdDefine(line) ==
    /\ pc = "build"
    /\ nlines < MaxDefs
    /\ RtDefined(evaluate(ctxt, line))
    /\ pre' = ctxt
    /\ input' = line
    /\ nlines' = nlines + 1
    /\ UNCHANGED << res, fetched, rt_vars >>

\* postcard::from_bytes has decoded the file
LdReceive(art) ==
    /\ pc = "build"
    /\ ser' = art
    /\ pc' = "artifact"
    /\ UNCHANGED << host_vars_but_pc, ld, ns, outs, io >>

\* ctxt.load_ser_dict(&deser), on the context that holds the definitions
LdStdLoaded(r) ==
    /\ ld' = r
    /\ ctxt' = r.ctxt
    /\ pc' = IF r.panic THEN "load_panic"
             ELSE IF r.refused # "" THEN "std_refused"
             ELSE "std_loaded"
LdLoadStd ==
    /\ pc = "artifact"
    /\ LdStdLoaded(load_ser_dict(ctxt, ser))
    /\ pre' = ctxt
    /\ UNCHANGED << res, input, nlines, fetched, ser, ns, outs, io >>

\* NoStdContext::from_ser_dict(&loaded)
LdNoStdLoaded(r) ==
    /\ ns' = r
    /\ pc' = IF r.panic THEN "load_panic" ELSE "ns_loaded"
LdLoadNoStd ==
    /\ pc = "artifact"
    /\ LdNoStdLoaded(from_ser_dict(ser, DATA_SZ, FLOW_SZ, OUTBUF_SZ))
    /\ UNCHANGED << host_vars_but_pc, ser, ld, outs, io >>

\* The embedded main: ns_ctxt.rt.push_exec(VerbSeq(from_word(1))), the entry
\* point being the definition with index 1 whatever was loaded
LdNsStarted(p) ==
    /\ ns' = [ns EXCEPT !.rt = p.rt]
    /\ pc' = IF p.err # "" THEN "run_panic" ELSE "ns_step"
LdNsStart ==
    /\ pc = "ns_loaded"
    /\ LdNsStarted(push_exec(ns.rt, VerbSeq(1, 0)))
    /\ UNCHANGED << host_vars_but_pc, ser, ld, outs, io >>

\* run_blocking: match self.rt.step()
LdNsStepped(r) ==
    /\ ns' = [ns EXCEPT !.rt = r.rt]
    /\ res' = [kind |-> r.kind, bi |-> r.bi, tok |-> r.tok, idx |-> r.idx, err |-> r.err]
    /\ pc' = CASE r.kind = "Single" -> "ns_single"
               [] r.kind = "Ref"    -> "ns_ref"
               [] r.kind = "Done"   -> "ns_done"
               [] r.kind = "Err"    -> "ns_err"
               [] r.kind = "Panic"  -> "run_panic"
LdNsStep ==
    /\ pc = "ns_step"
    /\ LdNsStepped(step(ns.rt))
    /\ UNCHANGED << ctxt, input, nlines, pre, fetched, ser, ld, outs, io >>

\* run_blocking: Single(ft) => ft.exec(&mut self.rt).unwrap()
LdNsExecuted(e) ==
    /\ ns' = [ns EXCEPT !.rt = e.rt]
    /\ pc' = IF e.err # "" THEN "run_panic" ELSE "ns_step"
    /\ res' = [res EXCEPT !.err = e.err]
LdNsExec ==
    /\ pc = "ns_single"
    /\ LdNsExecuted(exec(res.bi, ns.rt))
    /\ UNCHANGED << ctxt, input, nlines, pre, fetched, ser, ld, outs, io >>

\* run_blocking: Ref(rtw) => self.seq.get(tok).and_then(|n| n.get(idx)),
\* self.rt.provide_seq_tok(c).unwrap()
LdNsProvided(c, p) ==
    /\ ns' = [ns EXCEPT !.rt = p.rt]
    /\ pc' = IF p.err # "" THEN "run_panic" ELSE "ns_step"
    /\ fetched' = [tok |-> res.tok, idx |-> res.idx, c |-> c]
LdNsProvide ==
    /\ pc = "ns_ref"
    /\ LdNsProvided(nostd_fetch(ns.seq, res.tok, res.idx),
                    provide_seq_tok(ns.rt, nostd_fetch(ns.seq, res.tok, res.idx)))
    /\ UNCHANGED << ctxt, res, input, nlines, pre, ser, ld, outs, io >>

LdNext ==
    \/ \E line \in LdTargetDefs : LdDefine(line)
    \/ \E art \in Artifacts : LdReceive(art)
    \/ LdLoadStd
    \/ LdLoadNoStd
    \/ LdNsStart
    \/ LdNsStep
    \/ LdNsExec
    \/ LdNsProvide

SpecLoad == LdInit /\ [][LdNext]_vars

\* --------------------------------------------- the embedded runtime
\* A caller of the fixed-capacity Runtime of nostd_rt. The capacities are
\* const parameters of NoStdContext; the runtime is met with any values on
\* its data and return stack that the capacities allow.
EmbDataSz == 1
EmbFlowSz == 2
EmbWords ==
    { LiteralVal(1), Verb("bi_dup"), Verb("bi_retstk_push"), Verb("bi_retstk_pop"),
      VerbSeq(0, 0) }
EmbStacks == SeqsUpTo({ 1 }, EmbDataSz)
EmbRuntime(d, r) ==
    [nostd_new_runtime(EmbDataSz, EmbFlowSz, OUTBUF_SZ) EXCEPT !.data_stk = d, !.ret_stk = r]

EmbInit ==
    /\ \E d \in EmbStacks, r \in EmbStacks :
         /\ ctxt = [with_builtins(std_builtins) EXCEPT !.rt = EmbRuntime(d, r)]
         /\ pre = [with_builtins(std_builtins) EXCEPT !.rt = EmbRuntime(d, r)]
    /\ pc = "read"
    /\ res = NoRes
    /\ input = << >>
    /\ nlines = 0
    /\ fetched = NoFetch
    /\ ser = SerDict(<< >>, FALSE, << >>, << >>)
    /\ ld = [panic |-> FALSE, refused |-> "", ctxt |-> with_builtins(std_builtins)]
    /\ ns = [panic |-> FALSE, rt |-> new_runtime, seq |-> << >>]
    /\ outs = NoOuts
    /\ io = NoIo

EmbNext ==
    \/ \E word \in EmbWords : ApiPushExec(word)
    \/ ApiStep
    \/ ApiExec
    \/ \E word \in EmbWords : ApiProvide(Some(word))
    \/ ApiProvide(None)

SpecEmb == EmbInit /\ [][EmbNext]_vars

\* ------------------------------------------------------- single lines
\* run_main on a file of one line, as the single-line cases of the smoke
\* test run each line on a context of its own: conditionals in conditionals,
\* sums, and a line of each other construct.
MaxFileLines == 1

FileLines ==
    NestedIfLines \cup AddLines \cup IfLines \cup IfElseLines
    \cup { EqLine, IfUnderflowLine, LoopLine(MaxLimit, 0), NestLine(MaxNest, 0, MaxNest, 0) }

FileEvaluate(line) ==
    /\ pc = "read"
    /\ nlines < MaxFileLines
    /\ Evaluated(evaluate(ctxt, line))
    /\ pre' = ctxt
    /\ input' = line
    /\ nlines' = nlines + 1
    /\ UNCHANGED << fetched, rt_vars >>

FileNext ==
    \/ \E line \in FileLines : FileEvaluate(line)
    \/ Step
    \/ HostExec
    \/ HostProvide
    \/ HostFinish

SpecFile == Init /\ [][FileNext]_vars

\* ------------------------------------------------------- redefinition
\* A session of run_main that defines star, compiles a caller of star, and
\* goes on with lines that define star and two again or call them.
MaxRedefLines == 4

DefStarPlus == << T_colon, W_star >> \o Plus \o << T_semi >>
DefTwoRest  == << T_colon, W_two, W_star >> \o Rest \o << T_semi >>
RedefSet == { DefStar, DefStarPlus, DefTwo, DefTwoRest, << W_two >>, << W_star >> }
RedefScript(n) ==
    IF n = 0 THEN { DefStar } ELSE IF n = 1 THEN { DefTwo } ELSE RedefSet

RedefEvaluate(line) ==
    /\ pc = "read"
    /\ nlines < MaxRedefLines
    /\ line \in RedefScript(nlines)
    /\ Evaluated(evaluate(ctxt, line))
    /\ pre' = ctxt
    /\ input' = line
    /\ nlines' = nlines + 1
    /\ UNCHANGED << fetched, rt_vars >>

RedefNext ==
    \/ \E line \in RedefSet : RedefEvaluate(line)
    \/ Step
    \/ HostExec
    \/ HostProvide
    \/ HostFinish

SpecRedef == Init /\ [][RedefNext]_vars

\* ------------------------------------------------- the loop of run_main
\* The loop around step is sequential code: once a line was evaluated, the
\* process goes on with step, with the builtin step has handed out, or with
\* the answer to a Ref, until the loop breaks. Nothing makes the process
\* read another line. The lines are lines without a backward jump and loops
\* whose bodies write nothing.
MaxLiveLines == 2

QuietBody == << Num(0), T_if, Num(1), T_then >>
QuietLoop(l, i, body) == << Num(l), Num(i), T_do >> \o body \o << T_loop >>
QuietLoops ==
    { QuietLoop(p[1], p[2], << >>) : p \in LoopPairs } \cup { QuietLoop(MaxLimit, 0, QuietBody) }
QuietNest == << Num(MaxNest), Num(0), T_do, Num(MaxNest), Num(0), T_do, T_loop, T_loop >>
NoBackLines ==
    { IfLine(flag, Star) : flag \in Flags } \cup { IfLine(0, << >>), IfElseLine(0, Star, Plus2) }
    \cup { DefStar, << W_star >>, Star, IfUnderflowLine, EmitUnderflowLine }
LiveLines == QuietLoops \cup { QuietNest } \cup NoBackLines

LiveEvaluate(line) ==
    /\ pc = "read"
    /\ nlines < MaxLiveLines
    /\ Evaluated(evaluate(ctxt, line))
    /\ pre' = ctxt
    /\ input' = line
    /\ nlines' = nlines + 1
    /\ UNCHANGED << fetched, rt_vars >>

LiveNext ==
    \/ \E line \in LiveLines : LiveEvaluate(line)
    \/ Step
    \/ HostExec
    \/ HostProvide
    \/ HostFinish

SpecLive ==
    /\ Init
    /\ [][LiveNext]_vars
    /\ WF_vars(Step)
    /\ WF_vars(HostExec)
    /\ WF_vars(HostProvide)

\* ============================================================ properties
StacksEmpty(rt) == rt.data_stk = << >> /\ rt.ret_stk = << >> /\ rt.flow_stk = << >>
Stars(n) == [i \in 1..n |-> 42]
NumAt(line, i) == parse_num(line[i]).val
\* What the arms and the rest of the conditional lines write
OutOf(body) == IF body = Star THEN << 42 >> ELSE IF body = Plus2 THEN << 43, 43 >> ELSE << >>
RestOut == << 44 >>
Inline(w) == w.tag \in { "LiteralVal", "UncondRelativeJump", "CondRelativeJump" }

\* C1 (as the specification states it): once a dictionary was serialized,
\* loaded by load_ser_dict and by from_ser_dict, and an entry point was run
\* on the three from the same data stack, the two loaded dictionaries have
\* written the output the compiled dictionary has written.
C1_RoundTrip ==
    pc = "ran" =>
        /\ outs.std.rt.cur_output = outs.orig.rt.cur_output
        /\ outs.nostd.rt.cur_output = outs.orig.rt.cur_output

\* C2: whenever step has returned an error, the data stack, the return stack
\* and the flow stack are empty.
C2_AtomicReset == pc = "err" => StacksEmpty(ctxt.rt)

\* A jump with no enclosing frame was stepped while the data stack held a value
C2_Witness ==
    /\ pc = "err"
    /\ res.err = "FlowStackEmpty"
    /\ pre.rt.data_stk # << >>
    /\ StacksEmpty(ctxt.rt)

\* C3 (as the specification states it): the first line of a fresh context,
\* driven to Done, leaves the three stacks empty.
C3_Original == pc = "done" /\ nlines = 1 => StacksEmpty(ctxt.rt)

\* The lines whose words consume what they push
BalancedLines == LoopLines \cup NestLines \cup IfLines \cup IfElseLines \cup CallLines

\* C3 (amended): when step returns Done the flow stack is empty, and the
\* data and the return stack hold what the words of the line left there: a
\* line whose words consume what they push leaves both as they were before
\* the line, the line 42 leaves 42 on the data stack and the line 1 >r
\* leaves 1 on the return stack.
C3_DoneStacks ==
    pc = "done" =>
        /\ ctxt.rt.flow_stk = << >>
        /\ input \in BalancedLines =>
              /\ ctxt.rt.data_stk = pre.rt.data_stk
              /\ ctxt.rt.ret_stk = pre.rt.ret_stk
        /\ input = Leave42 =>
              /\ ctxt.rt.data_stk = Append(pre.rt.data_stk, 42)
              /\ ctxt.rt.ret_stk = pre.rt.ret_stk
        /\ input = LeaveRet =>
              /\ ctxt.rt.data_stk = pre.rt.data_stk
              /\ ctxt.rt.ret_stk = Append(pre.rt.ret_stk, 1)

\* The line 42 was run to Done on the fresh context
C3_Witness ==
    /\ pc = "done"
    /\ nlines = 1
    /\ input = Leave42
    /\ ctxt.rt.data_stk = << 42 >>

\* step has returned the request for word res.idx of a definition, that word
\* is a literal or a jump, and so was the word before it, which the host
\* provided last and which that call of step consumed
BetweenInline(next) ==
    /\ pc = "ref"
    /\ fetched.c.some
    /\ Inline(fetched.c.word)
    /\ fetched.tok = res.tok
    /\ res.idx = fetched.idx + 1
    /\ next.some
    /\ Inline(next.word)

\* C4 (as the specification states it): step never returns between two
\* consecutive LITERAL, UNCOND_JUMP or COND_JUMP words of a definition.
C4_Original == ~BetweenInline(fetch_word(ctxt.dict.data, res.tok, res.idx))

\* C4 (amended): step returns with a builtin to run (its frame popped), with
\* the request for the next word of the definition on top of the flow stack
\* (the cursor of that frame advanced past it), or with Done on an empty flow
\* stack; a literal or a jump the host provided is consumed by the next call
\* of step, so that every frame left on the flow stack is a CALL.
C4_StepReturns ==
    /\ pc \in { "single", "ref", "done" } =>
          \A i \in 1..Len(ctxt.rt.flow_stk) : ctxt.rt.flow_stk[i].tag = "VerbSeq"
    /\ pc = "single" => res.kind = "Single"
    /\ pc = "ref" =>
          /\ res.kind = "Ref"
          /\ ctxt.rt.flow_stk # << >>
          /\ Top(ctxt.rt.flow_stk).tok = res.tok
          /\ Top(ctxt.rt.flow_stk).idx = res.idx + 1
    /\ pc = "done" => res.kind = "Done" /\ ctxt.rt.flow_stk = << >>

\* step has returned between the literals of the limit and of the index
C4_Witness ==
    /\ input = LoopLine(MaxLimit, 0)
    /\ BetweenInline(fetch_word(ctxt.dict.data, res.tok, res.idx))
    /\ fetched.c.word = LiteralVal(MaxLimit)
    /\ res.idx = 1

\* C5: limit index do 42 emit loop with limit > index, run to Done, has run
\* its body limit - index times and has left the return stack (and the data
\* stack) as it was before the line.
C5_LoopCount ==
    pc = "done" /\ input \in LoopLines =>
        /\ ctxt.rt.cur_output = Stars(NumAt(input, 1) - NumAt(input, 2))
        /\ ctxt.rt.ret_stk = pre.rt.ret_stk
        /\ ctxt.rt.data_stk = pre.rt.data_stk

\* The longest loop has ended on a return stack that held a value
C5_Witness ==
    /\ pc = "done"
    /\ input = LoopLine(MaxLimit, -1)
    /\ ctxt.rt.cur_output = Stars(MaxLimit + 1)
    /\ pre.rt.ret_stk = << 1 >>

\* C6 (as the specification states it): a loop entered with the limit equal
\* to the index never runs its body.
C6_ZeroTimes == input = EqLine => ctxt.rt.cur_output = << >>

C8_IfThen ==
    \A flag \in Flags : \A body \in { << >>, Star } :
        input = IfLine(flag, body) =>
            /\ pc # "run_panic"
            /\ pc = "done" =>
                  /\ ctxt.rt.cur_output = (IF flag # 0 THEN OutOf(body) ELSE << >>) \o RestOut
                  /\ ctxt.rt.data_stk = pre.rt.data_stk

\* C9 (as the specification states it): flag if A else B then rest runs A iff
\* the flag is not zero, B iff it is zero, and goes on with rest.
C9_IfElse ==
    \A flag \in Flags : \A A \in { << >>, Star } : \A B \in { << >>, Plus2 } :
        input = IfElseLine(flag, A, B) =>
            /\ pc # "run_panic"
            /\ pc = "done" =>
                  /\ ctxt.rt.cur_output = (IF flag # 0 THEN OutOf(A) ELSE OutOf(B)) \o RestOut
                  /\ ctxt.rt.data_stk = pre.rt.data_stk

\* C10: when the compilation of a line has failed, the definitions, the
\* builtin map, the anonymous counter and the flow stack (and the rest of
\* the runtime) are what they were before the evaluate call.
C10_CompileFailure ==
    pc = "compile_panic" =>
        /\ ctxt.dict.data = pre.dict.data
        /\ ctxt.dict.bis = pre.dict.bis
        /\ ctxt.dict.shame_idx = pre.dict.shame_idx
        /\ ctxt.rt = pre.rt

\* A line with an unknown token has failed on a dictionary that holds a
\* definition and has counted an anonymous line before
C10_Witness ==
    /\ pc = "compile_panic"
    /\ input = UnknownLine
    /\ nlines = MaxLines
    /\ ctxt.dict.shame_idx + Cardinality(DOMAIN ctxt.dict.data) > 0

\* C11 (as the specification states it): a body with an if that is never
\* closed makes evaluate return the error MissingIfPair, a body with a do
\* that is never closed makes it return MissingDoPair.
C11_MissingPair ==
    /\ input = NoThenLine => pc = "compile_err" /\ res.err = "MissingIfPair"
    /\ input = NoLoopLine => pc = "compile_err" /\ res.err = "MissingDoPair"

\* An artifact names a builtin the registry bis does not hold
UnknownBuiltin(art, bis) == \E i \in 1..Len(art.bis) : art.bis[i] \notin DOMAIN bis
NoStdRegistry == [n \in { nostd_builtins[i][1] : i \in 1..Len(nostd_builtins) } |-> TRUE]
StdHasLoaded == pc \in { "std_loaded", "std_refused" } \/ (pc = "load_panic" /\ ld.panic)
NoStdHasLoaded == pc = "ns_loaded" \/ (pc = "load_panic" /\ ns.panic)

\* C12: an artifact whose bis names a builtin the loader does not register
\* is not loaded: load_ser_dict returns early and leaves the context as it
\* was, from_ser_dict panics before it has built a context.
C12_UnknownBuiltin ==
    /\ StdHasLoaded /\ UnknownBuiltin(ser, pre.dict.bis) =>
          /\ pc = "std_refused"
          /\ ctxt = pre
    /\ NoStdHasLoaded /\ UnknownBuiltin(ser, NoStdRegistry) =>
          /\ pc = "load_panic"
          /\ ns.seq = << >>

\* load_ser_dict has refused, for its builtins, an artifact with a name map
\* whose first body it could have loaded, on a context with a definition
C12_Witness ==
    /\ pc = "std_refused"
    /\ ld.refused = "missing builtins"
    /\ ser.bis = << W_emit, N_PRIV_LOOP >>
    /\ ser.data_map = << W_a, W_b >>
    /\ ser.data = << << SerLiteralVal(1) >>, << SerVerb(0) >> >>
    /\ W_a \in DOMAIN ctxt.dict.data

\* The name map is present and is not as long as data
SizeMismatch(art) == art.has_map /\ Len(art.data_map) # Len(art.data)

\* C13 (as the specification states it): both loaders reject an artifact
\* whose name map is not as long as data and load none of its definitions.
C13_SizeMismatch ==
    /\ StdHasLoaded /\ SizeMismatch(ser) =>
          /\ pc = "std_refused"
          /\ ctxt = pre
    /\ NoStdHasLoaded /\ SizeMismatch(ser) =>
          /\ pc = "load_panic"
          /\ ns.seq = << >>

\* Word k of body has a jump whose target, position + 1 + offset with the
\* position counted from zero, is not in [0, length]
JumpLeaves(body, k) ==
    /\ body[k].tag \in { "UncondRelativeJump", "CondRelativeJump" }
    /\ (k + body[k].val < 0 \/ k + body[k].val > Len(body))
BadJump(art) ==
    \E d \in 1..Len(art.data) : \E k \in 1..Len(art.data[d]) : JumpLeaves(art.data[d], k)

\* C14 (as the specification states it): no loader completes the load of an
\* artifact with a jump that leaves its definition.
C14_JumpRange ==
    BadJump(ser) => pc \notin { "std_loaded", "ns_loaded" }

\* C15 (as the specification states it): when load_ser_dict has not
\* completed the load, the definitions of the context are what they were
\* before the call.
C15_NoPartialLoad ==
    StdHasLoaded /\ pc # "std_loaded" => ctxt.dict.data = pre.dict.data

\* C16 (as the specification states it): when a builtin the host has run
\* returned an error, the host loop goes on with the error and the three
\* stacks are empty.
C16_PrimitiveError ==
    res.kind = "Single" /\ res.err # "" =>
        /\ pc # "run_panic"
        /\ StacksEmpty(ctxt.rt)

\* What star 2 0 do 43 emit star loop 44 emit star writes when every
\* builtin runs once, where it stands
CallLoopOut == << 42, 43, 42, 43, 42, 44, 42 >>
IsPrefix(a, b) == Len(a) <= Len(b) /\ a = SubSeq(b, 1, Len(a))

\* C17: with star defined, the line star 2 0 do 43 emit star loop 44 emit
\* star runs without an error; what it has written is at every moment the
\* beginning of *+*+*,* (each builtin yielded once, in program order, the
\* caller resumed behind each call); at Done it has written all of it and
\* the data and the return stack are as they were before the line.
C17_ProgramOrder ==
    input = CallLoopLine /\ W_star \in DOMAIN pre.dict.data =>
        /\ pc \notin { "err", "run_panic", "compile_panic" }
        /\ IsPrefix(ctxt.rt.cur_output, CallLoopOut)
        /\ pc = "done" =>
              /\ ctxt.rt.cur_output = CallLoopOut
              /\ ctxt.rt.data_stk = pre.rt.data_stk
              /\ ctxt.rt.ret_stk = pre.rt.ret_stk
              /\ ctxt.rt.flow_stk = << >>

\* The line has run to Done behind the definition of star
C17_Witness ==
    /\ pc = "done"
    /\ input = CallLoopLine
    /\ W_star \in DOMAIN pre.dict.data
    /\ ctxt.rt.cur_output = CallLoopOut

\* C18: every call leaves the ledger balanced, all that was written being
\* what was handed out followed by what the sink holds (nothing lost,
\* nothing handed out twice), and a call of exchange_output hands out the
\* sink as it was and leaves it empty.
C18_ExchangeOutput ==
    [][/\ io'.written = io'.returned \o ctxt'.rt.cur_output
       /\ io'.returned # io.returned =>
             /\ io'.returned = io.returned \o ctxt.rt.cur_output
             /\ ctxt'.rt.cur_output = << >>]_vars

\* The output of a builtin was handed out, and after that an error of step
\* has reset the stacks
C18_Witness ==
    /\ io.returned # << >>
    /\ io.written = io.returned
    /\ ctxt.rt.cur_output = << >>
    /\ pc = "err"

\* The compiled form of 42 emit
StarBody == << Named(N_LIT(42), LiteralVal(42)), Named(W_emit, Verb("bi_emit")) >>

C20_Resolution ==
    /\ input = CallNum /\ pc = "done" =>
          IF Num(7) \in DOMAIN pre.dict.data
          THEN /\ ctxt.rt.cur_output = << 42 >>
               /\ ctxt.rt.data_stk = pre.rt.data_stk
          ELSE /\ ctxt.rt.cur_output = << >>
               /\ ctxt.rt.data_stk = Append(pre.rt.data_stk, 7)
    /\ input = Star /\ pc = "done" =>
          /\ ctxt.rt.cur_output = << 42 >>
          /\ ctxt.rt.data_stk = pre.rt.data_stk
    /\ input = CallNum => pc \notin { "compile_panic", "run_panic", "err" }
    /\ input = Star => pc \notin { "compile_panic", "run_panic", "err" }
    /\ input = UnknownLine => pc = "compile_panic"

\* The line 7 has called the definition of that name
C20_Witness ==
    /\ pc = "done"
    /\ input = CallNum
    /\ Num(7) \in DOMAIN pre.dict.data
    /\ ctxt.rt.cur_output = << 42 >>
    /\ ctxt.rt.data_stk = << >>

\* C21: a line written with capitals compiles where its lowercase spelling
\* compiles, evaluate leaves the Context the lowercase spelling leaves
\* (the same dictionary, the same word to run), and the run ends as the run
\* of the lowercase spelling ends, with the same stacks and the same output.
C21_CaseInsensitive ==
    \A p \in CasePairs :
        input = p[1] =>
            /\ (pc = "compile_panic") = evaluate(pre, p[2]).panic
            /\ pc = "step" /\ res = NoRes => ctxt = evaluate(pre, p[2]).ctxt
            /\ pc \in { "done", "err" } =>
                  /\ ctxt.dict = evaluate(pre, p[2]).ctxt.dict
                  /\ ctxt.rt = run_main_loop(evaluate(pre, p[2]).ctxt.rt,
                                             evaluate(pre, p[2]).ctxt.dict.data).rt
                  /\ (pc = "done") =
                        (run_main_loop(evaluate(pre, p[2]).ctxt.rt,
                                       evaluate(pre, p[2]).ctxt.dict.data).kind = "Ok")
            /\ pc # "run_panic"

\* STAR has run the definition that was entered as : STAR 42 emit ;
C21_Witness ==
    /\ pc = "done"
    /\ input = CallUpper
    /\ W_star \in DOMAIN pre.dict.data
    /\ W_STAR \notin DOMAIN pre.dict.data
    /\ ctxt.rt.cur_output = << 42 >>

\* The call that is being made pushes onto a stack that is full
DataPushOnFull ==
    /\ Full(ctxt.rt.data_stk, ctxt.rt.cap.data)
    /\ \/ /\ ApiStep
          /\ ctxt.rt.flow_stk # << >>
          /\ Top(ctxt.rt.flow_stk).tag = "LiteralVal"
       \/ ApiExec /\ res.bi = "bi_dup"
       \/ ApiExec /\ res.bi = "bi_retstk_pop" /\ ctxt.rt.ret_stk # << >>
RetPushOnFull ==
    /\ Full(ctxt.rt.ret_stk, ctxt.rt.cap.data)
    /\ ApiExec /\ res.bi = "bi_retstk_push" /\ ctxt.rt.data_stk # << >>
FlowPushOnFull ==
    /\ Full(ctxt.rt.flow_stk, ctxt.rt.cap.flow)
    /\ \E word \in EmbWords : ApiPushExec(word) \/ ApiProvide(Some(word))

\* C22: in the embedded runtime no push onto a full data stack, return
\* stack or flow stack ends the program; a push that step makes onto a
\* full stack makes step return StackOverflow and leaves the three stacks
\* empty, and a push that a builtin makes returns StackOverflow.
C22_StackOverflow ==
    [][/\ DataPushOnFull \/ RetPushOnFull \/ FlowPushOnFull => pc' # "run_panic"
       /\ DataPushOnFull /\ ApiStep =>
             /\ pc' = "err"
             /\ res'.err = "StackOverflow"
             /\ StacksEmpty(ctxt'.rt)
       /\ (DataPushOnFull \/ RetPushOnFull) /\ ApiExec => res'.err = "StackOverflow"]_vars

\* C23: when the run subcommand exits with status 0, no line of the file
\* has surfaced an error from step.
C23_RunExit == pc = "exit_ok" => io.errors = << >>

\* C24: a b <, a b > and a b =, run to Done, have replaced a and b by -1
\* when a < b, a > b or a = b as signed numbers, and by 0 when not; the
\* rest of the data stack and the return stack are as before.
C24_Comparison ==
    input \in CmpLines =>
        /\ pc \notin { "compile_panic", "run_panic", "err" }
        /\ pc = "done" =>
              /\ ctxt.rt.ret_stk = pre.rt.ret_stk
              /\ input[3] = W_lt =>
                    ctxt.rt.data_stk =
                        Append(pre.rt.data_stk,
                               IF NumAt(input, 1) < NumAt(input, 2) THEN -1 ELSE 0)
              /\ input[3] = W_gt =>
                    ctxt.rt.data_stk =
                        Append(pre.rt.data_stk,
                               IF NumAt(input, 1) > NumAt(input, 2) THEN -1 ELSE 0)
              /\ input[3] = W_eq =>
                    ctxt.rt.data_stk =
                        Append(pre.rt.data_stk,
                               IF NumAt(input, 1) = NumAt(input, 2) THEN -1 ELSE 0)

\* -1 2147483647 < has left -1 above what the line before it had left
C24_Witness ==
    /\ pc = "done"
    /\ input = CmpLine(-1, I32Max, W_lt)
    /\ pre.rt.data_stk # << >>
    /\ Top(ctxt.rt.data_stk) = -1
    /\ Len(ctxt.rt.data_stk) = Len(pre.rt.data_stk) + 1

\* The serialized dictionary holds a definition that uses do/loop
UsesLoop == \E i \in 1..Len(ser.bis) : ser.bis[i] = N_PRIV_LOOP
AfterStdLoad == { "std_loaded", "loaded", "run_orig", "run_std", "run_nostd", "ran" }
AfterNoStdLoad == { "loaded", "run_orig", "run_std", "run_nostd", "ran" }

\* C25: every builtin name of a serialized dictionary is registered by
\* std_builtins and by nostd_builtins; a serialized dictionary with a
\* definition that uses do/loop is loaded by load_ser_dict and by
\* from_ser_dict, and the run of that definition on either ends with Done.
C25_LoopArtifact ==
    /\ pc \in { "serialized" } \cup AfterStdLoad =>
          \A i \in 1..Len(ser.bis) :
              /\ ser.bis[i] \in DOMAIN with_builtins(std_builtins).dict.bis
              /\ ser.bis[i] \in DOMAIN NoStdRegistry
    /\ pc \in AfterStdLoad /\ UsesLoop =>
          /\ ~ld.panic
          /\ ld.refused = ""
          /\ W_test \in DOMAIN ld.ctxt.dict.data
    /\ pc \in AfterNoStdLoad /\ UsesLoop => ~ns.panic /\ ns.seq # << >>
    /\ pc = "ran" /\ outs.entry = W_test =>
          /\ outs.std.kind = "Ok"
          /\ outs.nostd.kind = "Ok"

\* evaluate has just compiled the line under the anonymous name
JustEvaluated == pc = "step" /\ res = NoRes
AnonWords == ctxt.dict.data[<< "_", "_" >> \o fmt_i32(pre.dict.shame_idx)]
Lit(n) == Named(N_LIT(n), LiteralVal(n))
CallStar == Named(W_star, from_word(W_star))
\* [>r, >r] ++ body ++ [PRIV_LOOP, CRJ(-(len(body) + k), false)]
LoopShape(body, k) ==
    << Named(N_to_r, Verb("bi_retstk_push")), Named(N_to_r, Verb("bi_retstk_push")) >>
    \o body
    \o << Named(N_PRIV_LOOP, Verb("bi_priv_loop")),
          Named(N_CRJ, CondRelativeJump(-(Len(body) + k), FALSE)) >>
\* The loops of the lines are compiled to LoopShape with the constant k
LoweredAs(k) ==
    JustEvaluated =>
        /\ \A p \in LoopPairs :
              input = LoopLine(p[1], p[2]) =>
                  AnonWords = << Lit(p[1]), Lit(p[2]) >> \o LoopShape(StarBody, k)
        /\ input = EmptyLoopLine =>
              AnonWords = << Lit(1), Lit(0) >> \o LoopShape(<< >>, k)
        /\ input = CallLoopLine =>
              AnonWords = << CallStar, Lit(2), Lit(0) >>
                          \o LoopShape(<< Lit(43), StarBody[2], CallStar >>, k)
                          \o << Lit(44), StarBody[2], CallStar >>
        /\ \A o \in NestPairs, n \in NestPairs :
              input = NestLine(o[1], o[2], n[1], n[2]) =>
                  AnonWords = << Lit(o[1]), Lit(o[2]) >>
                              \o LoopShape(<< Lit(n[1]), Lit(n[2]) >> \o LoopShape(StarBody, k), k)

\* C27 (as the specification states it): the jump that closes a loop has
\* the offset -(len(body) + 1).
C27_Original == LoweredAs(1)

\* C27: do body loop is compiled to >r >r, the compiled body, PRIV_LOOP and
\* a conditional jump of polarity false whose offset is -(len(body) + 2):
\* it leads back over PRIV_LOOP and the body, onto the first word of the body.
C27_Lowering == LoweredAs(2)

\* A loop in a loop was compiled: the outer jump spans the whole inner loop
C27_Witness ==
    /\ JustEvaluated
    /\ input = NestLine(2, 0, 2, 1)
    /\ Len(AnonWords) = 14
    /\ AnonWords[14].word = CondRelativeJump(-10, FALSE)
    /\ AnonWords[12].word = CondRelativeJump(-4, FALSE)

\* The body of the loop of a line limit index do 42 emit loop begins: step
\* has handed out the first emit
BodyBegins ==
    /\ input \in LoopLines
    /\ pc = "single"
    /\ res.bi = "bi_emit"
    /\ ctxt.rt.cur_output = << >>

\* C28 (as the specification states it): when the body begins, the limit is
\* on the return stack with the starting index on top of it.
C28_Original ==
    BodyBegins =>
        ctxt.rt.ret_stk = pre.rt.ret_stk \o << NumAt(input, 1), NumAt(input, 2) >>

\* C28: when the body begins, the starting index is on the return stack
\* with the limit on top of it: the first >r moves the index, which is on
\* top of the data stack, and the second >r moves the limit.
C28_LimitOnTop ==
    BodyBegins =>
        /\ ctxt.rt.ret_stk = pre.rt.ret_stk \o << NumAt(input, 2), NumAt(input, 1) >>
        /\ ctxt.rt.data_stk = pre.rt.data_stk \o << 42 >>

\* The body of 3 0 do 42 emit loop begins above a value left by the line before
C28_Witness ==
    /\ BodyBegins
    /\ input = LoopLine(MaxLimit, 0)
    /\ pre.rt.ret_stk = << 1 >>
    /\ ctxt.rt.ret_stk = << 1, 0, MaxLimit >>

\* The dictionary has been serialized into ser
Serialized == pc \in { "serialized" } \cup AfterStdLoad
\* The body of the definition d calls the definition c
Calls(d, c) == \E k \in 1..Len(ctxt.dict.data[d]) : ctxt.dict.data[d][k].word = from_word(c)
\* Dict::serialize meets the name c for the first time in the body of d: d
\* comes before c in the order of the keys, and no definition before d calls c
FirstMetIn(d, c) ==
    /\ d \in DOMAIN ctxt.dict.data
    /\ c \in DOMAIN ctxt.dict.data
    /\ StrLess(d, c)
    /\ Calls(d, c)
    /\ \A e \in DOMAIN ctxt.dict.data : StrLess(e, d) => ~Calls(e, c)

NoDuplicates(seq) == \A i \in 1..Len(seq), j \in 1..Len(seq) : seq[i] = seq[j] => i = j
\* The serialized word w stands for the named word n of the dictionary
StandsFor(w, n) ==
    CASE n.word.tag = "LiteralVal" -> w = SerLiteralVal(n.word.val)
      [] n.word.tag = "Verb" ->
            /\ w.tag = "Verb"
            /\ w.idx < Len(ser.bis)
            /\ ser.bis[w.idx + 1] = n.name
      [] n.word.tag = "VerbSeq" ->
            /\ w.tag = "VerbSeq"
            /\ w.idx < Len(ser.data)
            /\ ser.data_map[w.idx + 1] = n.word.tok
      [] n.word.tag = "UncondRelativeJump" -> w = SerUncondRelativeJump(n.word.val)
      [] n.word.tag = "CondRelativeJump" ->
            w = SerCondRelativeJump(n.word.val, n.word.jump_on)

\* C30: the serialized dictionary has a name map as long as data that lists
\* every definition once; entry i of data is the body of the definition
\* data_map names at i, word for word, with every call and every builtin
\* index in range and leading to the name of the callee or of the builtin;
\* bis has no name twice and no name that no body refers to.
C30_SerializeShape ==
    /\ pc # "run_panic"
    /\ Serialized =>
          /\ ser.has_map
          /\ Len(ser.data_map) = Len(ser.data)
          /\ NoDuplicates(ser.data_map)
          /\ { ser.data_map[i] : i \in 1..Len(ser.data_map) } = DOMAIN ctxt.dict.data
          /\ \A i \in 1..Len(ser.data) :
                /\ Len(ser.data[i]) = Len(ctxt.dict.data[ser.data_map[i]])
                /\ \A k \in 1..Len(ser.data[i]) :
                      StandsFor(ser.data[i][k], ctxt.dict.data[ser.data_map[i]][k])
          /\ NoDuplicates(ser.bis)
          /\ \A b \in 1..Len(ser.bis) :
                \E i \in 1..Len(ser.data) : \E k \in 1..Len(ser.data[i]) :
                    ser.data[i][k] = SerVerb(b - 1)

\* A loop and a definition that calls star twice were serialized together
C30_Witness ==
    /\ pc = "serialized"
    /\ ser.data_map = << W_star, W_test >>
    /\ ser.bis = << W_emit, N_to_r, N_PRIV_LOOP >>
    /\ Len(ser.data[2]) = 8

\* The line is a definition for evaluate
IsDefinition(line) == line # << >> /\ Head(line) = T_colon /\ line[Len(line)] = T_semi

\* C26: the anonymous counter never decreases, and an evaluate of a line
\* that is not a definition stores the line under a name the dictionary did
\* not hold, and leaves every entry the dictionary held as it was.
C26_FreshName ==
    [][/\ ctxt'.dict.shame_idx >= ctxt.dict.shame_idx
       /\ pc = "read" /\ pc' = "step" /\ ~IsDefinition(input') =>
             /\ ctxt'.dict.shame_idx = ctxt.dict.shame_idx + 1
             /\ << "_", "_" >> \o fmt_i32(ctxt.dict.shame_idx) \notin DOMAIN ctxt.dict.data
             /\ << "_", "_" >> \o fmt_i32(ctxt.dict.shame_idx) \in DOMAIN ctxt'.dict.data
             /\ \A n \in DOMAIN ctxt.dict.data :
                   ctxt'.dict.data[n] = ctxt.dict.data[n]]_vars

\* The words of a definition without their names
WordsOf(def) == [i \in 1..Len(def) |-> def[i].word]

\* C31: in every definition of the dictionary, a jump at position p (counted
\* from zero) with offset o has its target p + 1 + o in [0, length of the
\* definition]: no jump leaves its definition.
C31_JumpsInside ==
    \A n \in DOMAIN ctxt.dict.data :
        \A k \in 1..Len(ctxt.dict.data[n]) : ~JumpLeaves(WordsOf(ctxt.dict.data[n]), k)

\* A conditional nested in a conditional that ends its line was compiled:
\* the outer jump and the inner unconditional jump land on the length of the
\* definition
C31_Witness ==
    /\ JustEvaluated
    /\ input = NestedIfLine(1, 1)
    /\ AnonWords[3].word = CondRelativeJump(Len(AnonWords) - 3, FALSE)
    /\ \E k \in 4..Len(AnonWords) :
          /\ AnonWords[k].word.tag = "UncondRelativeJump"
          /\ k + AnonWords[k].word.val = Len(AnonWords)

\* What the structured conditionals of the nested lines select on the flags
\* in the order the line pops them
NestedIfOut(a, b) ==
    IF b = 0 THEN << >> ELSE << 42 >> \o (IF a # 0 THEN << 42 >> ELSE << 43, 43 >>)
NestedElseOut(a, b) ==
    IF b # 0 THEN << 42 >> ELSE IF a # 0 THEN << 43 >> ELSE << 44 >>
DeepIfOut(a, b, c) == IF a # 0 /\ b # 0 /\ c # 0 THEN << 42 >> ELSE << >>

CondJumpPos(rt) ==
    LET f == rt.flow_stk
        n == Len(f)
    IN  IF n >= 2 /\ f[n].tag = "CondRelativeJump" /\ f[n - 1].tag = "VerbSeq"
           /\ rt.data_stk # << >>
        THEN n
        ELSE IF n >= 3 /\ f[n].tag = "LiteralVal" /\ f[n - 1].tag = "CondRelativeJump"
                /\ f[n - 2].tag = "VerbSeq"
        THEN n - 1
        ELSE 0
\* The value that jump pops, and the data stack under it
CondJumpVal(rt) ==
    IF Top(rt.flow_stk).tag = "LiteralVal" THEN Top(rt.flow_stk).val ELSE Top(rt.data_stk)
CondJumpUnder(rt) ==
    IF Top(rt.flow_stk).tag = "LiteralVal" THEN rt.data_stk ELSE Pop(rt.data_stk)
\* (v = 0) XOR polarity
CondJumpTaken(rt) ==
    (CondJumpVal(rt) = 0) # rt.flow_stk[CondJumpPos(rt)].jump_on
\* A call of step that has returned a value
StepReturned ==
    /\ nlines' = nlines + 1
    /\ pc' \in { "ref", "single", "done", "err" }
    /\ pc \in ApiIdle

\* C33: a step that meets COND_JUMP(offset, polarity) over a CALL frame and
\* returns has popped one value v; the cursor of the CALL frame has moved by
\* offset iff (v = 0) XOR polarity and has stayed at the word after the jump
\* if not (step then hands out that cursor and advances it by one, as for
\* every CALL on top), the jump frame is gone, and every frame below, the
\* return stack and the output are as they were.
C33_CondJump ==
    [][StepReturned /\ CondJumpPos(ctxt.rt) > 0 =>
          LET k     == CondJumpPos(ctxt.rt)
              f     == ctxt.rt.flow_stk
              moved == IF CondJumpTaken(ctxt.rt) THEN f[k].val ELSE 0
          IN  /\ pc' = "ref"
              /\ ctxt'.rt.data_stk = CondJumpUnder(ctxt.rt)
              /\ Len(ctxt'.rt.flow_stk) = k - 1
              /\ res'.idx = f[k - 1].idx + moved
              /\ ctxt'.rt.flow_stk[k - 1] = [f[k - 1] EXCEPT !.idx = @ + moved + 1]
              /\ \A i \in 1..(k - 2) : ctxt'.rt.flow_stk[i] = f[i]
              /\ ctxt'.rt.ret_stk = ctxt.rt.ret_stk
              /\ ctxt'.rt.cur_output = ctxt.rt.cur_output]_vars

\* A jump was taken in a frame that has a frame below it
C33_Witness ==
    /\ pc = "ref"
    /\ CondJumpPos(pre.rt) = 3
    /\ CondJumpTaken(pre.rt)
    /\ Len(ctxt.rt.flow_stk) = 2
    /\ res.idx = pre.rt.flow_stk[2].idx + 1
    /\ ctxt.rt.flow_stk[1] = pre.rt.flow_stk[1]

\* The top frame is a CALL
CallOnTop(rt) == rt.flow_stk # << >> /\ Top(rt.flow_stk).tag = "VerbSeq"

\* C34: a step that finds a CALL on top of the flow stack returns Ref with
\* the name of the frame and its cursor as it was before the step; the frame
\* stays where it is with its cursor advanced by one, every other frame, the
\* data stack, the return stack and the output are as they were. (Between
\* two calls the cursor of a CALL on top is below usize::MAX, so that the
\* increment does not overflow.)
C34_CallStep ==
    [][/\ pc \in ApiIdle /\ CallOnTop(ctxt.rt) => Top(ctxt.rt.flow_stk).idx < UsizeMax
       /\ pc \in ApiIdle /\ CallOnTop(ctxt.rt) /\ nlines' = nlines + 1
          /\ pc' \in { "ref", "single", "done", "err", "run_panic" }
          => /\ pc' = "ref"
             /\ res'.kind = "Ref"
             /\ res'.tok = Top(ctxt.rt.flow_stk).tok
             /\ res'.idx = Top(ctxt.rt.flow_stk).idx
             /\ ctxt'.rt = [ctxt.rt EXCEPT !.flow_stk[Len(ctxt.rt.flow_stk)].idx = @ + 1]]_vars

\* step has handed out the second word of a CALL that has a frame below it,
\* with a value on the data stack
C34_Witness ==
    /\ pc = "ref"
    /\ Len(pre.rt.flow_stk) = 2
    /\ CallOnTop(pre.rt)
    /\ res.idx = 1
    /\ Top(ctxt.rt.flow_stk).idx = 2
    /\ ctxt.rt.data_stk # << >>
    /\ ctxt.rt = [pre.rt EXCEPT !.flow_stk[2].idx = 2]

\* r is a + b reduced modulo 2^32 to a signed 32-bit value: a + b itself when
\* that is in the range, a + b - 2^32 when it is above, a + b + 2^32 when it
\* is below (stated on differences that stay in the range)
IsSum32(a, b, r) ==
    /\ r \in I32Min..I32Max
    /\ IF a > 0 /\ b > 0 /\ a > I32Max - b
       THEN r < 0 /\ r - I32Min = (a - I32Max) + (b - 1)
       ELSE IF a < 0 /\ b < 0 /\ a < I32Min - b
       THEN r >= 0 /\ r - I32Max = (a - I32Min) + (b + 1)
       ELSE r = a + b

\* C35: + run on two values pops them and pushes their sum reduced modulo
\* 2^32 to a signed 32-bit value, with no error; the loop step run on the
\* index 2^31 - 1 (the limit on top of the return stack, the index below
\* it) returns BadMath.
C35_AddWraps ==
    [][/\ pc = "single" /\ res.bi = "bi_add" /\ Len(ctxt.rt.data_stk) >= 2 =>
             /\ pc' = "step"
             /\ res'.err = ""
             /\ Len(ctxt'.rt.data_stk) = Len(ctxt.rt.data_stk) - 1
             /\ Pop(ctxt'.rt.data_stk) = Pop(Pop(ctxt.rt.data_stk))
             /\ IsSum32(Top(ctxt.rt.data_stk), Top(Pop(ctxt.rt.data_stk)),
                        Top(ctxt'.rt.data_stk))
       /\ pc = "single" /\ res.bi = "bi_priv_loop" /\ Len(ctxt.rt.ret_stk) >= 2
          /\ Top(Pop(ctxt.rt.ret_stk)) = I32Max =>
             res'.err = "BadMath"]_vars

\* 2147483647 1 + has left -2147483648
C35_Witness ==
    /\ pc = "done"
    /\ input = AddLine(I32Max, 1)
    /\ ctxt.rt.data_stk = << I32Min >>

\* C36 (as the specification states it): on the bytecode of a balanced line,
\* with an if arm, an else arm or a loop body that may be empty, no call of
\* step fails an assertion of step_inner (a forward jump that is applied is
\* not zero, a backward jump does not lead before the start of its frame).
C36_Assertions ==
    input \in IfLines \cup IfElseLines \cup LoopLines \cup NestLines \cup NestedIfLines
              \cup { EmptyLoopLine }
        => res.kind # "Panic"

\* C37: when step has yielded a CALL and the table of the host has no word
\* for it (no definition with that index, or no word at that position), the
\* host's answer pops the frame of that CALL and nothing else: the loop goes
\* on with step, every other frame, the data stack, the return stack and the
\* output are as they were, and no error is reported.
C37_NoWord ==
    [][pc = "ns_ref" /\ ~nostd_fetch(ns.seq, res.tok, res.idx).some =>
          /\ pc' = "ns_step"
          /\ Top(ns.rt.flow_stk) = VerbSeq(res.tok, res.idx + 1)
          /\ ns'.rt = [ns.rt EXCEPT !.flow_stk = Pop(@)]
          /\ io' = io]_vars

\* The second definition of the artifact has called a definition that the
\* artifact does not hold: the frame of that call is gone and the caller is
\* on top, behind the call
C37_Witness ==
    /\ pc = "ns_step"
    /\ res.kind = "Ref"
    /\ res.tok >= Len(ns.seq)
    /\ res.idx = 0
    /\ ~fetched.c.some
    /\ ns.rt.flow_stk = << VerbSeq(1, 1) >>

\* The compiled form of 43 emit, and what a body of star writes
PlusBody == << Named(N_LIT(43), LiteralVal(43)), Named(W_emit, Verb("bi_emit")) >>
BodyOut(body) == IF body = StarBody THEN << 42 >> ELSE IF body = PlusBody THEN << 43 >> ELSE << >>
CallsOf(line) == IF line = DefTwo THEN << CallStar, CallStar >> ELSE << CallStar, Lit(44), StarBody[2] >>

\* C38: the evaluate of a definition stores the new body under its name and
\* leaves every other entry, the compiled callers of that name among them,
\* as it was; a caller keeps the CALL by name it was compiled to, and run to
\* Done it has written what the body that star has now writes, once for
\* each of its calls.
C38_LateBinding ==
    [][/\ pc = "read" /\ pc' = "step" /\ IsDefinition(input') =>
             /\ DOMAIN ctxt'.dict.data = DOMAIN ctxt.dict.data \cup { input'[2] }
             /\ \A n \in DOMAIN ctxt.dict.data :
                   n # input'[2] => ctxt'.dict.data[n] = ctxt.dict.data[n]
             /\ input' = DefStar => ctxt'.dict.data[W_star] = StarBody
             /\ input' = DefStarPlus => ctxt'.dict.data[W_star] = PlusBody
             /\ input' \in { DefTwo, DefTwoRest } => ctxt'.dict.data[W_two] = CallsOf(input')
       /\ pc = "done" /\ input = << W_two >> =>
             ctxt.rt.cur_output =
                 IF ctxt.dict.data[W_two] = CallsOf(DefTwo)
                 THEN BodyOut(ctxt.dict.data[W_star]) \o BodyOut(ctxt.dict.data[W_star])
                 ELSE BodyOut(ctxt.dict.data[W_star]) \o << 44 >>]_vars

\* star was defined, two was compiled, star was defined again with another
\* body, and two has run the new body twice
C38_Witness ==
    /\ pc = "done"
    /\ nlines = MaxRedefLines
    /\ input = << W_two >>
    /\ ctxt.dict.data[W_star] = PlusBody
    /\ ctxt.dict.data[W_two] = << CallStar, CallStar >>
    /\ ctxt.rt.cur_output = << 43, 43 >>

\* C39: step, the run of a builtin and provide_seq_tok leave the dictionary
\* (definitions, builtins, anonymous counter) as it was; every CALL stored in
\* a definition has the cursor 0 while the frames of the flow stack advance,
\* and the answer to a Ref never fails the idx == 0 assertion.
C39_DictUntouched ==
    [][/\ pc \in { "step", "single", "ref" } => ctxt'.dict = ctxt.dict
       /\ \A n \in DOMAIN ctxt.dict.data : \A k \in 1..Len(ctxt.dict.data[n]) :
             ctxt.dict.data[n][k].word.tag = "VerbSeq" => ctxt.dict.data[n][k].word.idx = 0
       /\ pc = "ref" => pc' = "step"]_vars

\* two is running: the frame of its first call of star stands behind the
\* second word of star, the frame of two behind that call, and the CALL that
\* the definition of two holds has the cursor 0
C39_Witness ==
    /\ pc = "ref"
    /\ input = << W_two >>
    /\ res.tok = W_star
    /\ res.idx = 1
    /\ Len(ctxt.rt.flow_stk) = 3
    /\ ctxt.rt.flow_stk[3] = VerbSeq(W_star, 2)
    /\ ctxt.rt.flow_stk[2] = VerbSeq(W_two, 1)
    /\ ctxt.dict.data[W_two][1].word = VerbSeq(W_star, 0)

\* C40 (as the specification states it): the loop of a line without a
\* backward jump, on a dictionary whose definitions call no definition in a
\* cycle, reaches Done.
C40_Original ==
    input \in NoBackLines => pc \notin { "err", "run_panic" }

\* C40 (amended): the loop of a line without a backward jump ends after
\* finitely many calls of step, with Done, with the error step has returned
\* or with a panic; the loop of a do loop with limit > index whose body
\* ends (loops nested in it too) reaches Done.
C40_Terminates ==
    /\ (pc = "step" /\ input \in NoBackLines) ~> (pc \in { "done", "err", "run_panic" })
    /\ (pc = "step" /\ input \in QuietLoops \cup { QuietNest }) ~> (pc = "done")

\* The longest loop has reached Done with its body run for the last time
C40_Witness ==
    /\ pc = "done"
    /\ input = QuietLoop(MaxLimit, 0, QuietBody)
    /\ res.kind = "Done"
    /\ fetched.idx = Len(AnonWords)
    /\ ctxt.rt.ret_stk = pre.rt.ret_stk

====
